---- MODULE Spec2Model ----
(***************************************************************************)
(* The SW-WCD trial orchestrator (tests "SW-WCD Attack Matrix"), its       *)
(* helpers in TestUtils and the experiments table it writes to.            *)
(*                                                                         *)
(* JavaScript values are records [k, s]: k is the JS type ("undefined",    *)
(* "null", "boolean", "string", "number") and s the value as a sequence of *)
(* tokens.  A string is the sequence of its tokens ("MISS, HIT" is         *)
(* <<"MISS", ",", "HIT">>); tokens are case sensitive and indivisible, and *)
(* String.prototype.includes is containment of a contiguous run of tokens. *)
(***************************************************************************)
EXTENDS Integers, Sequences, FiniteSets, TLC

\* ------------------------------------------------------------ JS values

Undefined == [k |-> "undefined", s |-> <<>>]
Null == [k |-> "null", s |-> <<>>]
True == [k |-> "boolean", s |-> <<"true">>]
False == [k |-> "boolean", s |-> <<"false">>]
Str(toks) == [k |-> "string", s |-> toks]
Num(tok) == [k |-> "number", s |-> <<tok>>]
Bool(b) == IF b THEN True ELSE False

\* ToBoolean: undefined, null, false, "" and 0 are falsy.
Truthy(v) ==
    CASE v.k = "boolean" -> v.s = <<"true">>
      [] v.k = "string" -> v.s # <<>>
      [] v.k = "number" -> v.s # <<"0">>
      [] OTHER -> FALSE

\* a && b and a || b return one of their operands, not a boolean.
JsAnd(a, b) == IF Truthy(a) THEN b ELSE a
JsOr(a, b) == IF Truthy(a) THEN a ELSE b

\* s.includes(sub) on token sequences.
Includes(s, sub) ==
    \E i \in 0..(Len(s) - Len(sub)) : SubSeq(s, i + 1, i + Len(sub)) = sub

\* x?.includes(sub) || false: undefined for a missing x, a TypeError for a
\* value that has no includes method (reported as the tag "throw").
OptIncludes(x, sub) ==
    CASE x.k \in {"undefined", "null"} -> False
      [] x.k = "string" -> Bool(Includes(x.s, sub))
      [] OTHER -> [k |-> "throw", s |-> <<>>]

\* ------------------------------------------------------------ TestUtils

\* key.toLowerCase() for the header names the model uses.
ToLowerCase(name) ==
    CASE name = "CF-Cache-Status" -> "cf-cache-status"
      [] name = "X-Cache" -> "x-cache"
      [] name = "X-Cache-Status" -> "x-cache-status"
      [] name = "Set-Cookie" -> "set-cookie"
      [] name = "Cache-Control" -> "cache-control"
      [] name = "Age" -> "age"
      [] OTHER -> name

\* A headers argument is [k, entries]: k its JS type, entries the own
\* properties in insertion order, each <<name, value>>.
HeadersObject(entries) == [k |-> "object", entries |-> entries]
NoObject(kind) == [k |-> kind, entries |-> <<>>]

RECURSIVE normalizeEntries(_, _)
normalizeEntries(entries, acc) ==
    IF entries = <<>> THEN acc
    ELSE LET e == Head(entries)
             key == ToLowerCase(e[1])
         IN normalizeEntries(Tail(entries),
                [n \in DOMAIN acc \cup {key} |-> IF n = key THEN e[2] ELSE acc[n]])

\* A variant of normalizeHeaders: the keys are kept as they are.
normalizeHeaders_AsIs(rawHeaders) ==
    IF rawHeaders.k # "object" THEN <<>>
    ELSE [n \in { rawHeaders.entries[i][1] : i \in DOMAIN rawHeaders.entries } |->
            LET i == CHOOSE j \in DOMAIN rawHeaders.entries : rawHeaders.entries[j][1] = n
            IN rawHeaders.entries[i][2]]

\* TestUtils.normalizeHeaders: a later key overwrites an earlier one that
\* lowercases to the same name.
normalizeHeaders(rawHeaders) ==
    IF rawHeaders.k # "object" THEN <<>>
    ELSE normalizeEntries(rawHeaders.entries, <<>>)

Get(headers, name) == IF name \in DOMAIN headers THEN headers[name] ELSE Undefined

Verdict(status, raw, hit, miss) == [status |-> status, raw |-> raw, hit |-> hit, miss |-> miss]
ParseError == Verdict(Str(<<"PARSE_ERROR">>), Null, Undefined, Undefined)

\* A variant of ContainsVerdict: the value is compared, not searched.
ContainsVerdict_Exact(x, hitTok, missTok) ==
    Verdict(JsOr(x, Str(<<"MISSING_HEADER">>)), x,
            Bool(x = Str(<<hitTok>>)), Bool(x = Str(<<missTok>>)))

\* hit/miss by x?.includes(..) || false; an exception inside the switch
\* is caught and turned into PARSE_ERROR.
ContainsVerdict(x, hitTok, missTok) ==
    LET h == OptIncludes(x, <<hitTok>>)
        m == OptIncludes(x, <<missTok>>)
    IN IF h.k = "throw" \/ m.k = "throw" THEN ParseError
       ELSE Verdict(JsOr(x, Str(<<"MISSING_HEADER">>)), x, h, m)

ExactVerdict(x) ==
    Verdict(JsOr(x, Str(<<"MISSING_HEADER">>)), x,
            Bool(x = Str(<<"HIT">>)), Bool(x = Str(<<"MISS">>)))

parseCDNCacheStatus(rawHeaders, cdn) ==
    IF rawHeaders.k # "object"
    THEN Verdict(Str(<<"INVALID_HEADERS">>), Null, Undefined, Undefined)
    ELSE LET headers == normalizeHeaders(rawHeaders)
         IN CASE cdn = "cloudflare" -> ExactVerdict(Get(headers, "cf-cache-status"))
              [] cdn = "fastly" -> ContainsVerdict(Get(headers, "x-cache"), "HIT", "MISS")
              [] cdn = "cloudfront" -> ContainsVerdict(Get(headers, "x-cache"), "Hit", "Miss")
              [] cdn = "local" -> ExactVerdict(Get(headers, "x-cache-status"))
              [] OTHER -> Verdict(Str(<<"UNSUPPORTED_CDN">>), Null, Undefined, Undefined)


\* The markup around a marker in a response body, one tag token followed by
\* the marker token: <meta name="test-marker" content="..">, <code id="marker">..,
\* "marker": "..", window.trialMarker = '..', id="marker" ..>.., data-marker="..".
TagTokens == {"meta:", "code:", "json:", "win:", "id:", "data:"}

\* body.match(pattern)[1]: the text captured by the leftmost match, or null.
RECURSIVE MatchFrom(_, _, _)
MatchFrom(body, tags, i) ==
    IF i >= Len(body) THEN Null
    ELSE IF body[i] \in tags /\ body[i + 1] \notin TagTokens
         THEN Str(<<body[i + 1]>>)
         ELSE MatchFrom(body, tags, i + 1)

\* The six patterns in the order of the patterns array; the fifth,
\* id="marker"[^>]*>([^<]+)<, also matches the <code id="marker"> markup.
Patterns == << {"meta:"}, {"code:"}, {"json:"}, {"win:"}, {"id:", "code:"}, {"data:"} >>

RECURSIVE FirstPattern(_, _)
FirstPattern(body, i) ==
    IF i > Len(Patterns) THEN Null
    ELSE LET m == MatchFrom(body, Patterns[i], 1)
         IN IF Truthy(m) THEN m ELSE FirstPattern(body, i + 1)

\* TestUtils.extractMarkerFromBody(page, body).  page is [dom, meta]: what
\* locator('#marker').textContent() and locator('meta[name="test-marker"]')
\* .getAttribute('content') resolve to (null when the locator call rejects).
extractMarkerFromBody(page, body) ==
    IF ~Truthy(body) \/ body.k # "string" THEN Null
    ELSE IF Truthy(page.dom) THEN page.dom
    ELSE IF Truthy(page.meta) THEN page.meta
    ELSE FirstPattern(body.s, 1)

SensitiveHeaders == <<"set-cookie", "authorization", "proxy-authorization">>

RECURSIVE SensitiveIssues(_, _)
SensitiveIssues(headers, i) ==
    IF i > Len(SensitiveHeaders) THEN <<>>
    ELSE (IF Truthy(Get(headers, SensitiveHeaders[i]))
          THEN <<"Sensitive header " \o SensitiveHeaders[i] \o " found in cached response">>
          ELSE <<>>) \o SensitiveIssues(headers, i + 1)

\* A variant of validateResponseSafety: the age header is not looked at.
validateResponseSafety_NoAge(headers) ==
    LET cacheControl == Get(headers, "cache-control")
        private == Truthy(cacheControl) /\ Includes(cacheControl.s, <<"private">>)
    IN SensitiveIssues(headers, 1)
       \o (IF private THEN <<"Private content found in cached response">> ELSE <<>>)

\* A variant of validateResponseSafety: a worker still registered is reported.
validateResponseSafety_LongRunning(headers) ==
    SensitiveIssues(headers, 1) \o <<"long_running_sw">>

\* validateResponseSafety(response); headers is response.headers().
validateResponseSafety(headers) ==
    LET cacheControl == Get(headers, "cache-control")
        private == Truthy(cacheControl) /\ Includes(cacheControl.s, <<"private">>)
                   /\ Truthy(Get(headers, "age"))
    IN SensitiveIssues(headers, 1)
       \o (IF private THEN <<"Private content found in cached response">> ELSE <<>>)

\* ------------------------------------------------------------ config.js

CDNs == {"cloudflare", "fastly", "cloudfront", "local"}
Browsers == {"chromium", "firefox", "webkit"}
Attacks == {"t1-path-sculpting", "t2-header-manipulation", "t4-scope-misconfig"}
OriginStrategies == {"proper", "misconfigured", "missing", "conflicting"}

\* TEST_CONFIG.attacks[attack]
getAttackConfig(attack) ==
    CASE attack = "t1-path-sculpting" ->
           [targetPath |-> "/account", modifiedPath |-> "/account/sw-wcd-cache.jpg",
            swPath |-> "/sw/t1-path-sculpting"]
      [] attack = "t2-header-manipulation" ->
           [targetPath |-> "/api/reflect", modifiedPath |-> "/api/reflect",
            swPath |-> "/sw/t2-header-manipulation"]
      [] attack = "t4-scope-misconfig" ->
           [targetPath |-> "/user/alice/profile", modifiedPath |-> "/static/user-profile-cache",
            swPath |-> "/sw/t4-scope-misconfig"]

\* The errors validateTestParams collects; it throws when there is any.
validateTestParams(p) ==
    (IF p.cdn \notin CDNs THEN <<"Invalid CDN">> ELSE <<>>)
    \o (IF p.browser \notin Browsers THEN <<"Invalid browser">> ELSE <<>>)
    \o (IF p.attack \notin Attacks THEN <<"Invalid attack">> ELSE <<>>)
    \o (IF p.strategy \notin OriginStrategies THEN <<"Invalid strategy">> ELSE <<>>)

\* attack.startsWith('t1') for the attack names of the scenarios.
StartsWithT1(attack) == attack \in {"t1-path-sculpting", "t1-unknown"}

\* TEST_CONFIG.safety.trialDelayMs
trialDelayMs == 3000

\* ------------------------------------------------------------ bounds

\* generateTrialId draws from 1..NumTrialIds; the experiments table starts
\* with rows of earlier trials whose ids lie in 1..MaxExisting.
NumTrialIds == 2
MaxExisting == 1
TrialIds == 1..NumTrialIds

Scenario(cdn, browser, attack, strategy) ==
    [cdn |-> cdn, cdnConfig |-> "default", browser |-> browser, attack |-> attack,
     strategy |-> strategy]

\* The three rows of debugMatrix, and rows a matrix may hold besides them:
\* the other vendors and strategies, the incompatible combinations and
\* tuples outside the enumerations.
debugMatrix ==
    { Scenario("local", "chromium", "t1-path-sculpting", "misconfigured"),
      Scenario("local", "chromium", "t2-header-manipulation", "misconfigured"),
      Scenario("local", "chromium", "t4-scope-misconfig", "misconfigured") }

Matrix ==
    debugMatrix \cup
    { Scenario("local", "chromium", "t1-path-sculpting", "proper"),
      Scenario("fastly", "firefox", "t2-header-manipulation", "proper"),
      Scenario("cloudfront", "chromium", "t4-scope-misconfig", "missing"),
      Scenario("cloudflare", "webkit", "t2-header-manipulation", "conflicting"),
      Scenario("local", "webkit", "t2-header-manipulation", "misconfigured"),
      Scenario("fastly", "webkit", "t1-path-sculpting", "misconfigured"),
      Scenario("akamai", "chromium", "t1-path-sculpting", "misconfigured"),
      Scenario("local", "opera", "t2-header-manipulation", "proper"),
      Scenario("local", "chromium", "t3-unknown", "misconfigured"),
      Scenario("fastly", "chromium", "t4-scope-misconfig", "none"),
      Scenario("local", "webkit", "t3-unknown", "misconfigured"),
      Scenario("akamai", "webkit", "t1-unknown", "proper") }

\* ------------------------------------------------------------ environment

\* What the victim navigation can return: status, the two locator results
\* and the body text.
VictimResponse(status, dom, meta, body) ==
    [status |-> status, page |-> [dom |-> dom, meta |-> meta], body |-> Str(body)]

VictimResponses ==
    { VictimResponse(200, Str(<<"marker-A">>), Null, <<"code:", "marker-A">>),
      VictimResponse(200, Null, Str(<<"marker-B">>), <<"meta:", "marker-B">>),
      VictimResponse(200, Null, Null, <<"json:", "marker-A", "data:", "marker-B">>),
      VictimResponse(200, Null, Null, <<"hello">>),
      VictimResponse(403, Null, Null, <<>>) }

\* The vendor's signal header, by the rule table of parseCDNCacheStatus.
SignalHeader(cdn) ==
    CASE cdn = "cloudflare" -> "cf-cache-status"
      [] cdn \in {"fastly", "cloudfront"} -> "x-cache"
      [] OTHER -> "x-cache-status"

SignalValues ==
    { <<"HIT">>, <<"MISS">>, <<"MISS", ",", "HIT">>, <<"Hit", "from", "cloudfront">> }

ExtraHeaders ==
    { <<>>,
      << <<"set-cookie", Str(<<"session">>)>> >>,
      << <<"cache-control", Str(<<"private", ",", "max-age">>)>>, <<"age", Str(<<"12">>)>> >> }

AttackerBodies == { <<"hello">>, <<"code:", "marker-A">>, <<"json:", "marker-B">> }

\* Playwright reports header names in lower case.
AttackerResponses(cdn) ==
    { [status |-> 200, headers |-> HeadersObject(sig \o extra), body |-> Str(body)] :
        sig \in {<<>>} \cup { << <<SignalHeader(cdn), Str(v)>> >> : v \in SignalValues },
        extra \in ExtraHeaders, body \in AttackerBodies }

NoResponse == [status |-> 0, headers |-> HeadersObject(<<>>), body |-> Str(<<>>)]
NoVerdict == Verdict(Undefined, Undefined, Undefined, Undefined)

\* ------------------------------------------------------------ the trial

VARIABLES
    scenario,          \* testParams, a row of the matrix
    pc,                \* the statement the test function is suspended at
    trialId,           \* 0 until generateTrialId ran
    victimContext,     \* "none", "open" or "closed"
    attackerContext,
    cookies,           \* the cookies added to the victim context
    attackerState,     \* the attacker context's cookie jar and worker registrations
    baseURL,           \* "none", "cdn" (project baseURL) or "origin"
    swRegistrations,   \* the registerSW calls made, in order
    controlled,        \* waitForSWControl resolved
    victimResponse,
    victimMarker,
    waited,            \* the propagation delay elapsed
    attackerResponse,
    cacheStatus,
    containsVictimData,
    attackSuccess,
    safetyIssues,
    experiments,       \* the rows of table experiments
    dbLog,             \* the logTrialToDB calls of the trial: the row and whether it was stored
    phases,            \* the phases entered, in order
    requests,          \* the navigations issued, in order
    exc,               \* the exception in flight: "none", "error" or "skip"
    result,            \* the status the runner reports for the test
    skipReason,
    console,           \* what was written to the console
    callHeaders,       \* a call of parseCDNCacheStatus on its own: its rawHeaders argument,
    callCdn,           \* its cdn argument,
    callResult,        \* what it returned,
    callDone,          \* and whether it was made
    now,               \* the clock, in minutes
    originRequests,    \* the requests the origin received: when, and for which host
    origin_logs,       \* the rows of table origin_logs
    mpc,               \* where checkForAnomalies is suspended, "idle" between runs
    localAnomalies,    \* its local array anomalies
    anomalies,         \* this.anomalies of the detector
    lastCheck,
    performance_metrics, \* the security_anomaly rows of table performance_metrics
    returned,          \* what the completed runs returned, in order
    runs,              \* the runs started
    monitorLog,        \* what the monitor wrote to the console
    limiter,           \* which createRateLimiter the origin imports
    hits,              \* the rate limiter's store: the hits of each key in the window
    servedInWindow,    \* the limited requests of each client address let through in the window
    received,          \* the requests the origin answered
    lastRequest,       \* the last of them
    lastStatus,        \* and the status it was answered with
    purgeMode,         \* the purge that runs: the database function or the cleanup script
    intervalParam,     \* what the server does with INTERVAL $1: "rejected" or "accepted"
    purgePc,           \* the statement the purge is at, "done" when it is over
    tableRows,         \* the ages, in days, of the rows of the three tables
    atStart,           \* the same when the purge started
    dbFailed,          \* the connection failed under a statement of the purge
    swPayload,         \* the worker script looked at: how it is installed, and its attack
    swClock,           \* the time, in milliseconds
    swStartedAt,       \* when the script started
    swTimer,           \* the delay of the timer it set
    swStatus,          \* "none", "active", "unregistered" (by its timer) or "removed"
    trials,            \* the test functions the workers of the runner execute side by side
    edgeCache,         \* the entries of the shared cache in front of the origin
    originNow,         \* Date.now() at the origin, from the victim's request on
    visit,             \* the trial followed through the cache, from registration to verdict
    overlap            \* the monitor runs under way side by side, one per run slot

\* The variables of the direct calls, which a trial leaves alone.
interpVars == << callHeaders, callCdn, callResult, callDone >>

\* The variables of the monitor, the origin's log and the clock.
monitorVars ==
    << now, originRequests, origin_logs, mpc, localAnomalies, anomalies, lastCheck,
       performance_metrics, returned, runs, monitorLog >>

\* The variables of the test function, and with them the table it writes.
trialLocals ==
    << scenario, pc, trialId, victimContext, attackerContext, cookies, attackerState,
       baseURL, swRegistrations, controlled, victimResponse, victimMarker, waited,
       attackerResponse, cacheStatus, containsVictimData, attackSuccess,
       safetyIssues, dbLog, phases, requests, exc, result, skipReason, console >>

orchestratorVars == << trialLocals, experiments >>

\* The variables of the origin's rate limiter.
limiterVars == << limiter, hits, servedInWindow, received, lastRequest, lastStatus >>

\* The variables of the services around the trial.
\* The variables of the maintenance purge.
purgeVars == << purgeMode, intervalParam, purgePc, tableRows, atStart, dbFailed >>

\* The variables of a worker script's life.
workerVars == << swPayload, swClock, swStartedAt, swTimer, swStatus >>

\* The variables of the shared cache and of the trial followed through it.
cacheVars == << edgeCache, originNow, visit >>

serviceVars == << limiterVars, purgeVars, workerVars, trials, cacheVars, overlap >>

\* What an action of one service leaves alone.
aroundLimiter ==
    << orchestratorVars, interpVars, monitorVars, purgeVars, workerVars, trials, cacheVars,
       overlap >>
aroundPurge ==
    << orchestratorVars, interpVars, monitorVars, limiterVars, workerVars, trials, cacheVars,
       overlap >>
aroundWorker ==
    << orchestratorVars, interpVars, monitorVars, limiterVars, purgeVars, trials, cacheVars,
       overlap >>
aroundTrials ==
    << trialLocals, interpVars, monitorVars, limiterVars, purgeVars, workerVars, cacheVars,
       overlap >>
aroundCache ==
    << orchestratorVars, interpVars, monitorVars, limiterVars, purgeVars, workerVars, trials,
       overlap >>

\* What a step of the interval's runs leaves alone, the monitor's tables
\* and the variables of the one-run model among it.
aroundInterval ==
    << orchestratorVars, interpVars, limiterVars, purgeVars, workerVars, trials, cacheVars,
       now, originRequests, origin_logs, mpc, localAnomalies, returned, runs >>

vars == << orchestratorVars, interpVars, monitorVars, serviceVars >>

\* TEST_CONFIG.cdns[cdn] || TEST_CONFIG.cdns.local, its testDomain
getCDNConfig(cdn) ==
    CASE cdn = "cloudflare" -> "cf-test.yourdomain.com"
      [] cdn = "fastly" -> "fastly-test.yourdomain.com"
      [] cdn = "cloudfront" -> "aws-test.yourdomain.com"
      [] OTHER -> "cdn-simulator.local"

\* TestUtils.createAuthCookie(domain)
createAuthCookie(domain) == [name |-> "session", domain |-> domain, httpOnly |-> TRUE]

URL(base, path, strategy, trial) ==
    [base |-> base, path |-> path, strategy |-> strategy, trial |-> trial]
Request(session, url) == [session |-> session, url |-> url]

victimURL == URL(baseURL, getAttackConfig(scenario.attack).targetPath, scenario.strategy, trialId)
\* attackConfig.modifiedPath || attackConfig.targetPath: every attack declares one
attackerURL == URL(baseURL, getAttackConfig(scenario.attack).modifiedPath, scenario.strategy, trialId)

\* An object's properties as response.headers() gives them, names unchanged.
RECURSIVE ObjectOf(_, _)
ObjectOf(entries, acc) ==
    IF entries = <<>> THEN acc
    ELSE LET e == Head(entries)
         IN ObjectOf(Tail(entries),
                [n \in DOMAIN acc \cup {e[1]} |-> IF n = e[1] THEN e[2] ELSE acc[n]])

\* const containsVictimData = victimMarker && attackerBody.includes(victimMarker)
ContainsVictimData(marker, attackerBody) ==
    JsAnd(marker, Bool(Includes(attackerBody.s, marker.s)))

\* A variant of AttackSuccess: || written for &&.
AttackSuccess_Or(status, contains) == JsOr(status.hit, contains)

\* const attackSuccess = cacheStatus.hit && containsVictimData
AttackSuccess(status, contains) == JsAnd(status.hit, contains)

\* The trialData object of Phase 4 (timestamp, browser_version and
\* execution_time_ms, which are clock readings, left out).
TrialData(id, sc, vURL, aURL, vResp, marker, aResp, status, contains, success, issues) ==
    [trial_id |-> id,
     cdn_vendor |-> sc.cdn, cdn_config |-> sc.cdnConfig, browser |-> sc.browser,
     attack_type |-> sc.attack, origin_header_strategy |-> sc.strategy,
     victim_request |-> [url |-> vURL, status |-> vResp.status, marker |-> marker],
     sw_modified_request |-> [original_url |-> vURL, modified_url |-> aURL],
     cdn_response |-> [status |-> aResp.status, headers |-> aResp.headers,
                       cache_status |-> status],
     attacker_request |-> [authenticated |-> False, url |-> aURL],
     attack_outcome |-> [success |-> success, cache_hit |-> status.hit,
                         victim_data_retrieved |-> contains, victim_marker |-> marker,
                         time_to_cache_ms |-> trialDelayMs, safety_issues |-> issues],
     notes |-> "Test: testName"]

trialData ==
    TrialData(trialId, scenario, victimURL, attackerURL, victimResponse, victimMarker,
              attackerResponse, cacheStatus, containsVictimData, attackSuccess,
              safetyIssues)

\* JSON.stringify drops a property whose value is undefined, so the JSONB
\* document has the key only for a defined value.
HasKey(v) == v.k # "undefined"

\* A variant of SchemaAccepts: trial_id is not a key of the table.
SchemaAccepts_NoKey(table, row) ==
    /\ row.cdn_vendor \in {"cloudflare", "fastly", "cloudfront", "local"}
    /\ row.browser \in {"chromium", "firefox", "webkit"}
    /\ row.attack_type \in {"t1-path-sculpting", "t2-header-manipulation", "t4-scope-misconfig"}
    /\ row.origin_header_strategy \in {"proper", "misconfigured", "missing", "conflicting"}
    /\ HasKey(row.attack_outcome.success)
    /\ HasKey(row.attack_outcome.cache_hit)
    /\ HasKey(row.attack_outcome.victim_data_retrieved)

\* The constraints of table experiments.
SchemaAccepts(table, row) ==
    /\ \A old \in table : old.trial_id # row.trial_id
    /\ row.cdn_vendor \in {"cloudflare", "fastly", "cloudfront", "local"}
    /\ row.browser \in {"chromium", "firefox", "webkit"}
    /\ row.attack_type \in {"t1-path-sculpting", "t2-header-manipulation", "t4-scope-misconfig"}
    /\ row.origin_header_strategy \in {"proper", "misconfigured", "missing", "conflicting"}
    /\ HasKey(row.attack_outcome.success)
    /\ HasKey(row.attack_outcome.cache_hit)
    /\ HasKey(row.attack_outcome.victim_data_retrieved)

\* A variant of logTrialToDB: INSERT .. ON CONFLICT (trial_id) DO UPDATE.
logTrialToDB_Upsert(table, row, dbUp) ==
    IF dbUp
    THEN [ok |-> TRUE,
          table |-> { old \in table : old.trial_id # row.trial_id } \cup {row}]
    ELSE [ok |-> FALSE, table |-> table]

\* TestUtils.logTrialToDB: one INSERT; it throws when the query fails (the
\* connection is down, dbUp = FALSE, or a constraint rejects the row).
logTrialToDB(table, row, dbUp) ==
    IF dbUp /\ SchemaAccepts(table, row)
    THEN [ok |-> TRUE, table |-> table \cup {row}]
    ELSE [ok |-> FALSE, table |-> table]

\* browser.newContext(): an isolated context, its cookie jar and its
\* service worker registrations empty (the projects set no storageState).
NewContext == [cookies |-> {}, registrations |-> <<>>]

\* A row an earlier trial left in the table.
ExistingRow(id) ==
    LET sc == Scenario("local", "chromium", "t1-path-sculpting", "misconfigured")
        v == URL("cdn", "/account", "misconfigured", id)
        a == URL("cdn", "/account/sw-wcd-cache.jpg", "misconfigured", id)
        vResp == VictimResponse(200, Str(<<"marker-A">>), Null, <<"code:", "marker-A">>)
        aResp == [status |-> 200,
                  headers |-> HeadersObject(<< <<"x-cache-status", Str(<<"HIT">>)>> >>),
                  body |-> Str(<<"code:", "marker-A">>)]
        status == parseCDNCacheStatus(aResp.headers, "local")
    IN TrialData(id, sc, v, a, vResp, Str(<<"marker-A">>), aResp, status, True, True, <<>>)

\* ---- the origin's rate limiter: its requests and its configuration

\* The addresses requests come from and name in X-Forwarded-For, and the
\* address of the proxy in front of the origin.
Addresses == {"10.0.0.1", "10.0.0.2"}
ProxyAddress == "172.18.0.2"

\* A path is the sequence of its pieces, so that a prefix of characters is
\* a prefix of pieces.
Paths ==
    { <<"/", "health">>, <<"/", "account">>, <<"/", "sw", "/", "t1-path-sculpting">>,
      <<"/", "sw", "/", "bogus">> }

\* The requests: the peer address, the X-Forwarded-For list (empty when
\* the header is absent) and the path.
OriginRequests ==
    { [remote |-> r, forwarded |-> f, path |-> p] :
        r \in {ProxyAddress},
        f \in {<<>>} \cup { <<a>> : a \in Addresses } \cup { <<a, b>> : a, b \in Addresses },
        p \in Paths }

NoRequest == [remote |-> "", forwarded |-> <<>>, path |-> <<>>]

\* No request reached the origin's rate limiter yet.
LimiterIdle ==
    /\ limiter = "forwarded"
    /\ hits = [k \in Addresses \cup {ProxyAddress} |-> 0]
    /\ servedInWindow = [a \in Addresses \cup {ProxyAddress} |-> 0]
    /\ received = 0
    /\ lastRequest = NoRequest
    /\ lastStatus = 0

\* ---- the maintenance purge: the tables it deletes from

Tables == {"experiments", "origin_logs", "performance_metrics"}

\* The ages of rows: a day, thirty days to the second, thirty-one days.
Ages == {1, 30, 31}

\* No purge runs and the tables are empty.
PurgeIdle ==
    /\ purgeMode = "function"
    /\ intervalParam = "rejected"
    /\ purgePc = "done"
    /\ tableRows = [t \in Tables |-> {}]
    /\ atStart = [t \in Tables |-> {}]
    /\ dbFailed = FALSE

\* ---- the worker scripts

\* The scripts with a timer of their own: the blob payloads of the trial,
\* the scripts the origin hosts under /sw/, and the payload files.
Payloads ==
    { [mechanism |-> "blob", attack |-> a] :
        a \in {"t1-path-sculpting", "t2-header-manipulation", "t4-scope-misconfig"} }
    \cup { [mechanism |-> "hosted", attack |-> a] :
             a \in {"t1-path-sculpting", "t2-header-manipulation", "t4-scope-misconfig"} }
    \cup { [mechanism |-> "file", attack |-> a] :
             a \in {"t1-path-sculpting", "t2-header-manipulation"} }

\* No worker script is looked at.
WorkerIdle ==
    /\ swPayload = [mechanism |-> "hosted", attack |-> "t1-path-sculpting"]
    /\ swClock = 0
    /\ swStartedAt = 0
    /\ swTimer = 0
    /\ swStatus = "none"

\* ---- the test functions side by side

\* workers: process.env.CI ? 2 : 4
workers == 2
Slots == 1..workers

\* The locals of a test function that has not run a statement yet.
NotStarted ==
    [pc |-> "start", last |-> "none", exc |-> "none", result |-> "running", id |-> 0,
     victim |-> "none", attacker |-> "none",
     victimResponse |-> VictimResponse(0, Null, Null, <<>>), marker |-> Null,
     attackerResponse |-> NoResponse, stored |-> FALSE]

TrialsIdle == trials = [i \in Slots |-> NotStarted]

\* ---- the shared cache

\* The trial followed before it registered a worker.
NoVisit ==
    [pc |-> "register", attack |-> "t1-path-sculpting", strategy |-> "proper", trial |-> 1,
     mechanism |-> "none",
     victimKey |-> [path |-> <<>>, strategy |-> "", trial |-> 0],
     victimGenerated |-> Null, marker |-> Null,
     attackerBody |-> Null, attackerFrom |-> "none",
     attackerEntryBy |-> [trial |-> 0, who |-> "none"],
     contains |-> Null]

\* The cache is empty and no trial is followed through it.
CacheIdle ==
    /\ edgeCache = {}
    /\ originNow = 0
    /\ visit = NoVisit

\* ---- the monitor's interval

\* The runs of checkForAnomalies that can be under way at once: two.
RunSlots == {1, 2}

\* A run slot no run has used.
FreeSlot == [pc |-> "free", local |-> <<>>, overlapped |-> FALSE]

IntervalIdle == overlap = [s \in RunSlots |-> FreeSlot]

ServicesIdle ==
    LimiterIdle /\ PurgeIdle /\ WorkerIdle /\ TrialsIdle /\ CacheIdle /\ IntervalIdle

\* No direct call of the interpreter is under way.
InterpIdle ==
    /\ callHeaders = NoObject("undefined")
    /\ callCdn = "local"
    /\ callResult = NoVerdict
    /\ callDone = FALSE

\* new AnomalyDetector() at time 0, the tables it reads empty.
MonitorIdle ==
    /\ now = 0
    /\ originRequests = <<>>
    /\ origin_logs = <<>>
    /\ mpc = "idle"
    /\ localAnomalies = <<>>
    /\ anomalies = <<>>
    /\ lastCheck = 0
    /\ performance_metrics = <<>>
    /\ returned = <<>>
    /\ runs = 0
    /\ monitorLog = {}

\* The state of a test function that has not run a statement yet.
TrialStart ==
    /\ pc = "start"
    /\ trialId = 0
    /\ victimContext = "none"
    /\ attackerContext = "none"
    /\ cookies = {}
    /\ attackerState = NewContext
    /\ baseURL = "none"
    /\ swRegistrations = <<>>
    /\ controlled = FALSE
    /\ victimResponse = VictimResponse(0, Null, Null, <<>>)
    /\ victimMarker = Null
    /\ waited = FALSE
    /\ attackerResponse = NoResponse
    /\ cacheStatus = NoVerdict
    /\ containsVictimData = Undefined
    /\ attackSuccess = Undefined
    /\ safetyIssues = <<>>
    /\ dbLog = <<>>
    /\ phases = <<>>
    /\ requests = <<>>
    /\ exc = "none"
    /\ result = "running"
    /\ skipReason = "none"
    /\ console = {}

Init ==
    /\ scenario \in Matrix
    /\ \E ids \in SUBSET (1..MaxExisting) : experiments = { ExistingRow(i) : i \in ids }
    /\ TrialStart
    /\ InterpIdle
    /\ MonitorIdle
    /\ ServicesIdle

\* ---- how a statement of the test function ends

trialVars == << victimResponse, victimMarker, attackerResponse, cacheStatus,
                containsVictimData, attackSuccess, safetyIssues >>
sessionVars == << victimContext, attackerContext, cookies, attackerState >>

\* testInfo.skip(true, reason) before the victim session exists.
SkipAtStart(reason) ==
    /\ result' = "skipped"
    /\ skipReason' = reason
    /\ pc' = "done"
    /\ trialId' = trialId

\* An exception thrown before the try of line 346: nothing catches it.
ThrowOutsideTry ==
    /\ exc' = "error"
    /\ result' = "failed"
    /\ pc' = "done"

\* An exception thrown inside the try of line 346 and outside the one of
\* line 447: the catch of line 544 rethrows it and the finally closes the
\* victim context.
ThrowInVictimTry(kind) ==
    /\ exc' = kind
    /\ pc' = "closeVictim"

\* An exception thrown inside the try of line 447: its finally closes the
\* attacker context first.
ThrowInAttackerTry(kind) ==
    /\ exc' = kind
    /\ pc' = "closeAttacker"

\* ---- the statements, one action per suspension point

\* A variant of StartTrial: validateTestParams is not called.
StartTrial_NoValidation ==
    /\ pc = "start"
    /\ IF scenario.cdn = "local" /\ scenario.browser = "webkit"
       THEN SkipAtStart("WebKit not supported in local CDN simulator")
       ELSE IF scenario.browser = "webkit" /\ StartsWithT1(scenario.attack)
       THEN SkipAtStart("WebKit has limited blob SW support for path sculpting")
       ELSE /\ trialId' \in TrialIds
            /\ pc' = "newContext"
            /\ UNCHANGED << result, skipReason >>
    /\ UNCHANGED << interpVars, monitorVars, serviceVars, scenario, sessionVars, baseURL, swRegistrations, controlled, waited,
                    trialVars, experiments, dbLog, phases, requests, exc, console >>

\* A variant of StartTrial: the check of webkit with a t1 attack is missing.
StartTrial_NoT1Skip ==
    /\ pc = "start"
    /\ IF scenario.cdn = "local" /\ scenario.browser = "webkit"
       THEN SkipAtStart("WebKit not supported in local CDN simulator")
       ELSE IF validateTestParams(scenario) # <<>>
       THEN SkipAtStart("Test parameter validation failed")
       ELSE /\ trialId' \in TrialIds
            /\ pc' = "newContext"
            /\ UNCHANGED << result, skipReason >>
    /\ UNCHANGED << interpVars, monitorVars, serviceVars, scenario, sessionVars, baseURL, swRegistrations, controlled, waited,
                    trialVars, experiments, dbLog, phases, requests, exc, console >>

\* Lines 316-340: the skip conditions, validateTestParams, generateTrialId.
StartTrial ==
    /\ pc = "start"
    /\ IF scenario.cdn = "local" /\ scenario.browser = "webkit"
       THEN SkipAtStart("WebKit not supported in local CDN simulator")
       ELSE IF scenario.browser = "webkit" /\ StartsWithT1(scenario.attack)
       THEN SkipAtStart("WebKit has limited blob SW support for path sculpting")
       ELSE IF validateTestParams(scenario) # <<>>
       THEN SkipAtStart("Test parameter validation failed")
       ELSE /\ trialId' \in TrialIds
            /\ pc' = "newContext"
            /\ UNCHANGED << result, skipReason >>
    /\ UNCHANGED << interpVars, monitorVars, serviceVars, scenario, sessionVars, baseURL, swRegistrations, controlled, waited,
                    trialVars, experiments, dbLog, phases, requests, exc, console >>

\* Line 343: playwrightBrowser.newContext()
OpenVictimContext ==
    /\ pc = "newContext"
    /\ \/ /\ victimContext' = "open"
          /\ phases' = Append(phases, "victim_session")
          /\ pc' = "newPage"
          /\ UNCHANGED << exc, result >>
       \/ /\ ThrowOutsideTry
          /\ UNCHANGED << victimContext, phases >>
    /\ UNCHANGED << interpVars, monitorVars, serviceVars, scenario, trialId, attackerContext, cookies, attackerState, baseURL,
                    swRegistrations, controlled, waited, trialVars, experiments, dbLog,
                    requests, skipReason, console >>

\* Line 344: victimContext.newPage()
NewVictimPage ==
    /\ pc = "newPage"
    /\ \/ pc' = "addCookies" /\ UNCHANGED << exc, result >>
       \/ ThrowOutsideTry
    /\ UNCHANGED << interpVars, monitorVars, serviceVars, scenario, trialId, sessionVars, baseURL, swRegistrations, controlled,
                    waited, trialVars, experiments, dbLog, phases, requests,
                    skipReason, console >>

\* Lines 348-349: createAuthCookie, victimContext.addCookies
AddCookies ==
    /\ pc = "addCookies"
    /\ \/ /\ cookies' = {createAuthCookie(getCDNConfig(scenario.cdn))}
          /\ pc' = "health"
          /\ UNCHANGED exc
       \/ /\ ThrowInVictimTry("error")
          /\ UNCHANGED cookies
    /\ UNCHANGED << interpVars, monitorVars, serviceVars, scenario, trialId, victimContext, attackerContext, attackerState,
                    baseURL, swRegistrations, controlled, waited, trialVars, experiments,
                    dbLog, phases, requests, result, skipReason, console >>

\* Lines 352-362: the connectivity probe; its failure is caught and the
\* origin is used directly.
HealthCheck ==
    /\ pc = "health"
    /\ requests' = Append(requests, Request("victim", URL("cdn", "/health", "none", 0)))
    /\ baseURL' \in {"cdn", "origin"}
    /\ pc' = "gotoBase"
    /\ UNCHANGED << interpVars, monitorVars, serviceVars, scenario, trialId, sessionVars, swRegistrations, controlled, waited,
                    trialVars, experiments, dbLog, phases, exc, result, skipReason,
                    console >>

\* Lines 366-369: victimPage.goto(baseURL)
GotoBase ==
    /\ pc = "gotoBase"
    /\ requests' = Append(requests, Request("victim", URL(baseURL, "/", "none", 0)))
    /\ \/ pc' = "registerBlob" /\ UNCHANGED exc
       \/ ThrowInVictimTry("error")
    /\ UNCHANGED << interpVars, monitorVars, serviceVars, scenario, trialId, sessionVars, baseURL, swRegistrations, controlled,
                    waited, trialVars, experiments, dbLog, phases, result, skipReason,
                    console >>

\* Lines 375-383: the blob is built and registerSW(blobURL, '/') awaited.
RegisterBlob ==
    /\ pc = "registerBlob"
    /\ swRegistrations' = Append(swRegistrations, "blob")
    /\ phases' = Append(phases, "install")
    /\ pc' \in {"controlBlob", "registerURL"}
    /\ console' = IF pc' = "registerURL"
                  THEN console \cup {"Blob SW registration failed"} ELSE console
    /\ UNCHANGED << interpVars, monitorVars, serviceVars, scenario, trialId, sessionVars, baseURL, controlled, waited, trialVars,
                    experiments, dbLog, requests, exc, result, skipReason >>

\* Line 386: waitForSWControl() after the blob registration; a timeout is
\* caught by the catch of line 388 like a failed registration.
ControlBlob ==
    /\ pc = "controlBlob"
    /\ \/ controlled' = TRUE /\ pc' = "victimGoto" /\ UNCHANGED console
       \/ /\ pc' = "registerURL"
          /\ console' = console \cup {"Blob SW registration failed"}
          /\ UNCHANGED controlled
    /\ UNCHANGED << interpVars, monitorVars, serviceVars, scenario, trialId, sessionVars, baseURL, swRegistrations, waited,
                    trialVars, experiments, dbLog, phases, requests, exc, result,
                    skipReason >>

\* A variant of SkipRegistration: the failure is logged and the trial goes on.
SkipRegistration_Continue ==
    /\ pc' = "victimGoto"
    /\ console' = console \cup {"All SW registration methods failed"}
    /\ UNCHANGED << exc, skipReason >>

\* Lines 398-401: the fallback failed; testInfo.skip throws out of the catch.
SkipRegistration ==
    /\ ThrowInVictimTry("skip")
    /\ skipReason' = "SW registration failed"
    /\ console' = console \cup {"All SW registration methods failed"}

\* A variant of RegisterURL: a failed fallback starts the installation again.
RegisterURL_Retry ==
    /\ pc = "registerURL"
    /\ swRegistrations' = Append(swRegistrations, "url")
    /\ pc' \in {"controlURL", "registerBlob"}
    /\ UNCHANGED << interpVars, monitorVars, serviceVars, scenario, trialId, sessionVars, baseURL, controlled, waited, trialVars,
                    experiments, dbLog, phases, requests, result, exc, skipReason,
                    console >>

\* Lines 393-395: registerSW(swURL, '/'), the hosted script.
RegisterURL ==
    /\ pc = "registerURL"
    /\ swRegistrations' = Append(swRegistrations, "url")
    /\ \/ pc' = "controlURL" /\ UNCHANGED << exc, skipReason, console >>
       \/ SkipRegistration
    /\ UNCHANGED << interpVars, monitorVars, serviceVars, scenario, trialId, sessionVars, baseURL, controlled, waited, trialVars,
                    experiments, dbLog, phases, requests, result >>

\* Line 396: waitForSWControl() after the URL registration.
ControlURL ==
    /\ pc = "controlURL"
    /\ \/ /\ controlled' = TRUE
          /\ pc' = "victimGoto"
          /\ UNCHANGED << exc, skipReason, console >>
       \/ SkipRegistration /\ UNCHANGED controlled
    /\ UNCHANGED << interpVars, monitorVars, serviceVars, scenario, trialId, sessionVars, baseURL, swRegistrations, waited,
                    trialVars, experiments, dbLog, phases, requests, result >>

\* Lines 406-416: the victim's target request through the worker.
VictimGoto ==
    /\ pc = "victimGoto"
    /\ requests' = Append(requests, Request("victim", victimURL))
    /\ phases' = Append(phases, "victim_request")
    /\ \/ /\ victimResponse' \in VictimResponses
          /\ pc' = "extract"
          /\ UNCHANGED exc
       \/ \* goto rejects, or resolves to null and line 415 throws
          /\ ThrowInVictimTry("error")
          /\ UNCHANGED victimResponse
    /\ UNCHANGED << interpVars, monitorVars, serviceVars, scenario, trialId, sessionVars, baseURL, swRegistrations, controlled,
                    waited, victimMarker, attackerResponse, cacheStatus,
                    containsVictimData, attackSuccess, safetyIssues, experiments, dbLog,
                    result, skipReason, console >>

\* Lines 418-421 and 435-437: victimResponse.text(), extractMarkerFromBody.
ExtractMarker ==
    /\ pc = "extract"
    /\ \/ /\ victimMarker' = extractMarkerFromBody(victimResponse.page, victimResponse.body)
          /\ pc' = IF Truthy(victimMarker') THEN "delay" ELSE "altExtract"
          /\ UNCHANGED exc
       \/ /\ ThrowInVictimTry("error")
          /\ UNCHANGED victimMarker
    /\ UNCHANGED << interpVars, monitorVars, serviceVars, scenario, trialId, sessionVars, baseURL, swRegistrations, controlled,
                    waited, victimResponse, attackerResponse, cacheStatus,
                    containsVictimData, attackSuccess, safetyIssues, experiments, dbLog,
                    phases, requests, result, skipReason, console >>

\* Lines 422-434: the second extraction by victimPage.evaluate; what it
\* finds is logged and victimMarker, a const, keeps its null.
AltExtract ==
    /\ pc = "altExtract"
    /\ \/ /\ \E found \in BOOLEAN :
                console' = console \cup { IF found THEN "Extracted marker via DOM"
                                          ELSE "Could not extract marker from victim response" }
          /\ pc' = "delay"
          /\ UNCHANGED exc
       \/ /\ ThrowInVictimTry("error")
          /\ UNCHANGED console
    /\ UNCHANGED << interpVars, monitorVars, serviceVars, scenario, trialId, sessionVars, baseURL, swRegistrations, controlled,
                    waited, trialVars, experiments, dbLog, phases, requests, result,
                    skipReason >>

\* A variant of PropagationWait: the delay is left out.
PropagationWait_Omitted ==
    /\ pc = "delay"
    /\ pc' = "attackerContext"
    /\ UNCHANGED << interpVars, monitorVars, serviceVars, scenario, trialId, sessionVars, baseURL, swRegistrations, controlled,
                    waited, trialVars, experiments, dbLog, phases, requests, exc, result,
                    skipReason, console >>

\* Lines 439-441: TestUtils.delay(trialDelayMs)
PropagationWait ==
    /\ pc = "delay"
    /\ waited' = TRUE
    /\ phases' = Append(phases, "wait")
    /\ pc' = "attackerContext"
    /\ UNCHANGED << interpVars, monitorVars, serviceVars, scenario, trialId, sessionVars, baseURL, swRegistrations, controlled,
                    trialVars, experiments, dbLog, requests, exc, result, skipReason,
                    console >>

\* A variant of OpenAttackerContext: the attacker's page is opened in the
\* victim's context.
OpenAttackerContext_Reuse ==
    /\ pc = "attackerContext"
    /\ \/ /\ attackerContext' = "open"
          /\ attackerState' = [cookies |-> cookies, registrations |-> swRegistrations]
          /\ phases' = Append(phases, "attacker_session")
          /\ pc' = "attackerPage"
          /\ UNCHANGED exc
       \/ /\ ThrowInVictimTry("error")
          /\ UNCHANGED << attackerContext, attackerState, phases >>
    /\ UNCHANGED << interpVars, monitorVars, serviceVars, scenario, trialId, victimContext, cookies, baseURL, swRegistrations,
                    controlled, waited, trialVars, experiments, dbLog, requests, result,
                    skipReason, console >>

\* Line 444: playwrightBrowser.newContext() for the attacker; nothing is
\* added to the context or registered in its page afterwards.
OpenAttackerContext ==
    /\ pc = "attackerContext"
    /\ \/ /\ attackerContext' = "open"
          /\ attackerState' = NewContext
          /\ phases' = Append(phases, "attacker_session")
          /\ pc' = "attackerPage"
          /\ UNCHANGED exc
       \/ /\ ThrowInVictimTry("error")
          /\ UNCHANGED << attackerContext, attackerState, phases >>
    /\ UNCHANGED << interpVars, monitorVars, serviceVars, scenario, trialId, victimContext, cookies, baseURL, swRegistrations,
                    controlled, waited, trialVars, experiments, dbLog, requests, result,
                    skipReason, console >>

\* Line 445: attackerContext.newPage(), before the try of line 447
NewAttackerPage ==
    /\ pc = "attackerPage"
    /\ \/ pc' = "attackerGoto" /\ UNCHANGED exc
       \/ ThrowInVictimTry("error")
    /\ UNCHANGED << interpVars, monitorVars, serviceVars, scenario, trialId, sessionVars, baseURL, swRegistrations, controlled,
                    waited, trialVars, experiments, dbLog, phases, requests, result,
                    skipReason, console >>

\* Lines 449-459: the attacker's request for the modified URL.
AttackerGoto ==
    /\ pc = "attackerGoto"
    /\ requests' = Append(requests, Request("attacker", attackerURL))
    /\ phases' = Append(phases, "attacker_request")
    /\ \/ /\ attackerResponse' \in AttackerResponses(scenario.cdn)
          /\ pc' = "classify"
          /\ UNCHANGED exc
       \/ /\ ThrowInAttackerTry("error")
          /\ UNCHANGED attackerResponse
    /\ UNCHANGED << interpVars, monitorVars, serviceVars, scenario, trialId, sessionVars, baseURL, swRegistrations, controlled,
                    waited, victimResponse, victimMarker, cacheStatus, containsVictimData,
                    attackSuccess, safetyIssues, experiments, dbLog, result, skipReason,
                    console >>

\* Lines 461-520: attackerResponse.text() and the classification.
Classify ==
    /\ pc = "classify"
    /\ \/ /\ cacheStatus' = parseCDNCacheStatus(attackerResponse.headers, scenario.cdn)
          /\ containsVictimData' = ContainsVictimData(victimMarker, attackerResponse.body)
          /\ safetyIssues' = validateResponseSafety(ObjectOf(attackerResponse.headers.entries, <<>>))
          /\ attackSuccess' = AttackSuccess(cacheStatus', containsVictimData')
          /\ console' = IF safetyIssues' # <<>> THEN console \cup {"Issues detected"}
                        ELSE console
          /\ phases' = Append(phases, "classify")
          /\ pc' = "persist"
          /\ UNCHANGED exc
       \/ /\ ThrowInAttackerTry("error")
          /\ UNCHANGED << cacheStatus, containsVictimData, safetyIssues, attackSuccess,
                          console, phases >>
    /\ UNCHANGED << interpVars, monitorVars, serviceVars, scenario, trialId, sessionVars, baseURL, swRegistrations, controlled,
                    waited, victimResponse, victimMarker, attackerResponse, experiments,
                    dbLog, requests, result, skipReason >>

\* A variant of Persist: no try/catch around logTrialToDB.
Persist_Uncaught ==
    /\ pc = "persist"
    /\ \E dbUp \in BOOLEAN :
          LET r == logTrialToDB(experiments, trialData, dbUp)
          IN /\ experiments' = r.table
             /\ dbLog' = Append(dbLog, [row |-> trialData, ok |-> r.ok])
             /\ console' = console \cup { IF r.ok THEN "Trial logged to database"
                                          ELSE "Failed to log trial to database" }
             /\ IF r.ok THEN pc' = "assert" /\ UNCHANGED exc
                ELSE ThrowInAttackerTry("error")
    /\ phases' = Append(phases, "persist")
    /\ UNCHANGED << interpVars, monitorVars, serviceVars, scenario, trialId, sessionVars, baseURL, swRegistrations, controlled,
                    waited, trialVars, requests, result, skipReason >>

\* Lines 522-528: logTrialToDB; its exception is caught and logged.
Persist ==
    /\ pc = "persist"
    /\ \E dbUp \in BOOLEAN :
          LET r == logTrialToDB(experiments, trialData, dbUp)
          IN /\ experiments' = r.table
             /\ dbLog' = Append(dbLog, [row |-> trialData, ok |-> r.ok])
             /\ console' = console \cup { IF r.ok THEN "Trial logged to database"
                                          ELSE "Failed to log trial to database" }
    /\ phases' = Append(phases, "persist")
    /\ pc' = "assert"
    /\ UNCHANGED << interpVars, monitorVars, serviceVars, scenario, trialId, sessionVars, baseURL, swRegistrations, controlled,
                    waited, trialVars, requests, exc, result, skipReason >>

\* A variant of AssertionsHold: the expectation on strategy proper is missing.
AssertionsHold_NoPolicy(strategy, success, status) ==
    /\ status.status # Str(<<"PARSE_ERROR">>)
    /\ status.status # Str(<<"UNSUPPORTED_CDN">>)

\* Lines 530-538: the three expect calls; toBe and not.toBe compare with
\* Object.is, so a null attackSuccess is not false.
AssertionsHold(strategy, success, status) ==
    /\ strategy = "proper" => success = False
    /\ status.status # Str(<<"PARSE_ERROR">>)
    /\ status.status # Str(<<"UNSUPPORTED_CDN">>)

Assertions ==
    /\ pc = "assert"
    /\ exc' = IF AssertionsHold(scenario.strategy, attackSuccess, cacheStatus)
              THEN "none" ELSE "error"
    /\ pc' = "closeAttacker"
    /\ UNCHANGED << interpVars, monitorVars, serviceVars, scenario, trialId, sessionVars, baseURL, swRegistrations, controlled,
                    waited, trialVars, experiments, dbLog, phases, requests, result,
                    skipReason, console >>

\* Lines 540-542: finally { attackerContext.close() }
CloseAttacker ==
    /\ pc = "closeAttacker"
    /\ attackerContext' = "closed"
    /\ pc' = "closeVictim"
    /\ UNCHANGED << interpVars, monitorVars, serviceVars, scenario, trialId, victimContext, cookies, attackerState, baseURL,
                    swRegistrations, controlled, waited, trialVars, experiments, dbLog,
                    phases, requests, exc, result, skipReason, console >>

\* The status the runner reports: a skip error is a skip, any other
\* exception a failure.
Report(e) ==
    CASE e = "none" -> "passed"
      [] e = "skip" -> "skipped"
      [] OTHER -> "failed"

\* Lines 544-550: catch { log; rethrow } finally { victimContext.close() }
CloseVictim ==
    /\ pc = "closeVictim"
    /\ victimContext' = "closed"
    /\ console' = IF exc # "none" THEN console \cup {"Trial failed"} ELSE console
    /\ result' = Report(exc)
    /\ pc' = "done"
    /\ UNCHANGED << interpVars, monitorVars, serviceVars, scenario, trialId, attackerContext, cookies, attackerState, baseURL,
                    swRegistrations, controlled, waited, trialVars, experiments, dbLog,
                    phases, requests, exc, skipReason >>

Next ==
    \/ StartTrial
    \/ OpenVictimContext
    \/ NewVictimPage
    \/ AddCookies
    \/ HealthCheck
    \/ GotoBase
    \/ RegisterBlob
    \/ ControlBlob
    \/ RegisterURL
    \/ ControlURL
    \/ VictimGoto
    \/ ExtractMarker
    \/ AltExtract
    \/ PropagationWait
    \/ OpenAttackerContext
    \/ NewAttackerPage
    \/ AttackerGoto
    \/ Classify
    \/ Persist
    \/ Assertions
    \/ CloseAttacker
    \/ CloseVictim

Spec == Init /\ [][Next]_vars

\* ------------------------------------------------------------ the interpreter alone

\* parseCDNCacheStatus called with any headers argument and any vendor: a
\* headers object has at most MaxHeaders properties.
MaxHeaders == 2

HeaderNames == {"cf-cache-status", "CF-Cache-Status", "x-cache", "X-Cache", "x-cache-status"}

HeaderValues ==
    { Str(<<"HIT">>), Str(<<"MISS">>), Str(<<"MISS", ",", "HIT">>),
      Str(<<"Hit", "from", "cloudfront">>), Str(<<"Miss", "from", "cloudfront">>),
      Str(<<"DYNAMIC">>), Str(<<>>), Num("1") }

\* The property names of an object are distinct.
HeaderArgs ==
    { NoObject(kind) : kind \in {"undefined", "null", "string", "number"} }
    \cup { HeadersObject(e) :
             e \in { f \in UNION { [1..n -> HeaderNames \X HeaderValues] : n \in 0..MaxHeaders } :
                       \A i, j \in DOMAIN f : f[i][1] = f[j][1] => i = j } }

Vendors == CDNs \cup {"akamai", "CloudFlare"}

InterpInit ==
    /\ callHeaders \in HeaderArgs
    /\ callCdn \in Vendors
    /\ callResult = NoVerdict
    /\ callDone = FALSE
    /\ scenario = Scenario("local", "chromium", "t1-path-sculpting", "misconfigured")
    /\ experiments = {}
    /\ TrialStart
    /\ MonitorIdle
    /\ ServicesIdle

\* TestUtils.parseCDNCacheStatus(rawHeaders, cdn)
Call ==
    /\ ~callDone
    /\ callResult' = parseCDNCacheStatus(callHeaders, callCdn)
    /\ callDone' = TRUE
    /\ UNCHANGED << callHeaders, callCdn, orchestratorVars, monitorVars, serviceVars >>

InterpNext == Call

InterpSpec == InterpInit /\ [][InterpNext]_vars

\* ---- the safety validation of a response, called directly

\* The headers of an attacker response that the validation or the
\* classification looks at, each absent or with one of its values; Playwright
\* reports the names in lower case.
SafetyHeaders ==
    << <<"x-cache-status", {Str(<<"HIT">>), Str(<<"MISS">>)}>>,
       <<"set-cookie", {Str(<<"session">>), Str(<<>>)}>>,
       <<"authorization", {Str(<<"Bearer">>)}>>,
       <<"proxy-authorization", {Str(<<"Basic">>)}>>,
       <<"cache-control", {Str(<<"private", ",", "max-age">>), Str(<<"public">>)}>>,
       <<"age", {Str(<<"0">>), Str(<<"12">>)}>> >>

RECURSIVE SafetyEntries(_)
SafetyEntries(i) ==
    IF i > Len(SafetyHeaders) THEN {<<>>}
    ELSE LET rest == SafetyEntries(i + 1)
         IN rest \cup { <<e>> \o r : e \in {SafetyHeaders[i][1]} \X SafetyHeaders[i][2],
                                      r \in rest }

SafetyInit ==
    /\ callHeaders \in { HeadersObject(e) : e \in SafetyEntries(1) }
    /\ callCdn = "local"
    /\ callResult = NoVerdict
    /\ callDone = FALSE
    /\ scenario = Scenario("local", "chromium", "t1-path-sculpting", "misconfigured")
    /\ experiments = {}
    /\ TrialStart
    /\ MonitorIdle
    /\ ServicesIdle

\* Lines 461-475 of the test function on one attacker response: the cache
\* status, containsVictimData, the safety validation and attackSuccess.
ValidateCall ==
    /\ ~callDone
    /\ \E marker \in {Null, Str(<<"marker-A">>)}, body \in AttackerBodies :
          LET status == parseCDNCacheStatus(callHeaders, callCdn)
              contains == ContainsVictimData(marker, Str(body))
          IN callResult' =
                [marker |-> marker, body |-> Str(body),
                 safety_issues |-> validateResponseSafety(ObjectOf(callHeaders.entries, <<>>)),
                 cache_hit |-> status.hit,
                 victim_data_retrieved |-> contains,
                 success |-> AttackSuccess(status, contains)]
    /\ callDone' = TRUE
    /\ UNCHANGED << callHeaders, callCdn, orchestratorVars, monitorVars, serviceVars >>

SafetyNext == ValidateCall

SafetySpec == SafetyInit /\ [][SafetyNext]_vars

\* ---- the marker extraction on any page and body

\* What the two locators resolve to (null, an empty text, a marker) and the
\* text of the response: empty, without a marker, or with the markup of one
\* or two of the patterns.
ExtractBodies ==
    { <<>>, <<"hello">>, <<"meta:", "marker-C">>, <<"code:", "marker-C">>,
      <<"json:", "marker-C">>, <<"win:", "marker-C">>, <<"id:", "marker-C">>,
      <<"data:", "marker-C">>, <<"data:", "marker-D", "json:", "marker-C">>,
      <<"hello", "id:", "marker-C", "meta:", "marker-D">> }

ExtractInputs ==
    { VictimResponse(200, dom, meta, body) :
        dom \in {Null, Str(<<>>), Str(<<"marker-A">>)},
        meta \in {Null, Str(<<>>), Str(<<"marker-B">>)},
        body \in ExtractBodies }

ExtractInit ==
    /\ pc = "extract"
    /\ victimResponse \in ExtractInputs
    /\ scenario = Scenario("local", "chromium", "t1-path-sculpting", "misconfigured")
    /\ experiments = {}
    /\ trialId = 0
    /\ victimContext = "none"
    /\ attackerContext = "none"
    /\ cookies = {}
    /\ attackerState = NewContext
    /\ baseURL = "none"
    /\ swRegistrations = <<>>
    /\ controlled = FALSE
    /\ victimMarker = Null
    /\ waited = FALSE
    /\ attackerResponse = NoResponse
    /\ cacheStatus = NoVerdict
    /\ containsVictimData = Undefined
    /\ attackSuccess = Undefined
    /\ safetyIssues = <<>>
    /\ dbLog = <<>>
    /\ phases = <<>>
    /\ requests = <<>>
    /\ exc = "none"
    /\ result = "running"
    /\ skipReason = "none"
    /\ console = {}
    /\ InterpIdle
    /\ MonitorIdle
    /\ ServicesIdle

ExtractNext == ExtractMarker

ExtractSpec == ExtractInit /\ [][ExtractNext]_vars

\* ------------------------------------------------------------ the safety monitor

\* The origin receives at most MaxRequests requests (fewer than its rate
\* limiter admits from one client), MaxTrials rows are persisted and the
\* monitor runs MaxRuns times.
MaxRequests == 2
MaxTrials == 1
MaxRuns == 1

\* The instants at which something happens, in minutes: the start, five
\* minutes and an hour later.
Instants == {0, 5, 60}

\* The requests the origin receives: the Host header, whether a cookie
\* came with it, and which logger writes the row.
Traffic ==
    { [host |-> "localhost", cookie |-> TRUE, writer |-> "middleware"],
      [host |-> "evil.example.com", cookie |-> FALSE, writer |-> "middleware"],
      [host |-> "evil.example.com", cookie |-> FALSE, writer |-> "logger"] }

\* What trials persist: the strategy and the two flags of the classifier.
Outcomes ==
    { [strategy |-> "proper", hit |-> True, contains |-> True],
      [strategy |-> "proper", hit |-> True, contains |-> Null],
      [strategy |-> "misconfigured", hit |-> True, contains |-> True] }

\* The list of checkExternalDomains.
Allowlist ==
    { "cdn-simulator.local", "localhost", "127.0.0.1", "cf-test.yourdomain.com",
      "fastly-test.yourdomain.com", "aws-test.yourdomain.com" }

\* The headers document an origin_logs row gets: the logging middleware of
\* the origin stores user-agent, accept and a masked cookie, the
\* RequestLogger user-agent and x-forwarded-for.  Neither stores host.
LoggedHeaders(writer, req) ==
    IF writer = "middleware"
    THEN [n \in {"user-agent", "accept"} \cup (IF req.cookie THEN {"cookie"} ELSE {}) |->
             CASE n = "user-agent" -> Str(<<"agent">>)
               [] n = "accept" -> Str(<<"*/*">>)
               [] OTHER -> Str(<<"***">>)]
    ELSE [n \in {"user-agent", "x-forwarded-for"} |->
             IF n = "user-agent" THEN Str(<<"agent">>) ELSE Str(<<"10.0.0.1">>)]

\* The columns of an experiments row that the monitor reads, attack_outcome
\* as the trial builds it.
MonitoredRow(id, t, strategy, hit, contains) ==
    [trial_id |-> id, timestamp |-> t, origin_header_strategy |-> strategy,
     attack_outcome |->
        [success |-> AttackSuccess([hit |-> hit], contains), cache_hit |-> hit,
         victim_data_retrieved |-> contains, safety_issues |-> <<>>]]

\* json ->> key: the value as text, SQL NULL for a missing key or JSON null.
JsonText(v) == IF v.k \in {"undefined", "null"} THEN Null ELSE Str(v.s)

\* text::boolean
SqlBoolean(t) ==
    CASE t = Str(<<"true">>) -> True
      [] t = Str(<<"false">>) -> False
      [] OTHER -> Null

Anomaly(type, severity, count, domains) ==
    [type |-> type, severity |-> severity,
     details |-> [count |-> count, domains |-> domains]]

maxRequestsPerMinute == 60

\* Each check gives the anomalies it pushes: one or none.
checkRequestRate(logs, t) ==
    LET requestCount == Cardinality({ i \in DOMAIN logs : logs[i].timestamp > t - 1 })
    IN IF requestCount > maxRequestsPerMinute
       THEN <<Anomaly("HIGH_REQUEST_RATE", "HIGH", requestCount, {})>>
       ELSE <<>>

\* WHERE timestamp > NOW() - 5 minutes AND headers->>'host' NOT IN (..)
\* GROUP BY host HAVING COUNT(*) > 1; NULL NOT IN (..) is not true.
checkExternalDomains(logs, t) ==
    LET host(i) == JsonText(Get(logs[i].headers, "host"))
        rows == { i \in DOMAIN logs :
                    /\ logs[i].timestamp > t - 5
                    /\ host(i) # Null
                    /\ host(i) \notin { Str(<<h>>) : h \in Allowlist } }
        count(h) == Cardinality({ i \in rows : host(i) = h })
        groups == { h \in { host(i) : i \in rows } : count(h) > 1 }
    IN IF groups # {}
       THEN <<Anomaly("EXTERNAL_DOMAIN_CONTACT", "CRITICAL", 0,
                      { [host |-> h, requests |-> count(h)] : h \in groups })>>
       ELSE <<>>

\* A variant of checkUnexpectedSuccesses: the strategy is not looked at.
checkUnexpectedSuccesses_AnyStrategy(table, t) ==
    LET unexpectedSuccesses ==
            Cardinality({ row \in table :
                            /\ row.timestamp > t - 60
                            /\ SqlBoolean(JsonText(row.attack_outcome.success)) = True })
    IN IF unexpectedSuccesses > 0
       THEN <<Anomaly("UNEXPECTED_SUCCESS", "MEDIUM", unexpectedSuccesses, {})>>
       ELSE <<>>

\* WHERE timestamp > NOW() - 1 hour AND origin_header_strategy = 'proper'
\* AND (attack_outcome->>'success')::boolean = true
checkUnexpectedSuccesses(table, t) ==
    LET unexpectedSuccesses ==
            Cardinality({ row \in table :
                            /\ row.timestamp > t - 60
                            /\ row.origin_header_strategy = "proper"
                            /\ SqlBoolean(JsonText(row.attack_outcome.success)) = True })
    IN IF unexpectedSuccesses > 0
       THEN <<Anomaly("UNEXPECTED_SUCCESS", "MEDIUM", unexpectedSuccesses, {})>>
       ELSE <<>>

\* WHERE timestamp > NOW() - 10 minutes AND safety_issues ? 'long_running_sw'
checkLongRunningSWs(table, t) ==
    LET longRunningSWs ==
            Cardinality({ row \in table :
                            /\ row.timestamp > t - 10
                            /\ \E i \in DOMAIN row.attack_outcome.safety_issues :
                                  row.attack_outcome.safety_issues[i] = "long_running_sw" })
    IN IF longRunningSWs > 0
       THEN <<Anomaly("LONG_RUNNING_SERVICE_WORKERS", "MEDIUM", longRunningSWs, {})>>
       ELSE <<>>

MonitorInit ==
    /\ MonitorIdle
    /\ InterpIdle
    /\ scenario = Scenario("local", "chromium", "t1-path-sculpting", "misconfigured")
    /\ experiments = {}
    /\ TrialStart
    /\ ServicesIdle

notMonitor == << trialLocals, interpVars, serviceVars >>

\* The origin receives a request and its logger inserts the row (the
\* database being up).
OriginRequest ==
    /\ Len(originRequests) < MaxRequests
    /\ \E req \in Traffic :
          /\ originRequests' = Append(originRequests, [time |-> now, host |-> req.host])
          /\ origin_logs' = Append(origin_logs,
                                   [timestamp |-> now, headers |-> LoggedHeaders(req.writer, req)])
    /\ UNCHANGED << notMonitor, experiments, now, mpc, localAnomalies, anomalies, lastCheck,
                    performance_metrics, returned, runs, monitorLog >>

\* A trial stores its row.
TrialPersisted ==
    /\ Cardinality(experiments) < MaxTrials
    /\ \E o \in Outcomes :
          experiments' = experiments \cup
              { MonitoredRow(Cardinality(experiments) + 1, now, o.strategy, o.hit, o.contains) }
    /\ UNCHANGED << notMonitor, monitorVars >>

\* Time passes between two runs (a run takes far less than a minute).
Advance ==
    /\ mpc = "idle"
    /\ now' \in { t \in Instants : t > now }
    /\ UNCHANGED << notMonitor, experiments, originRequests, origin_logs, mpc,
                    localAnomalies, anomalies, lastCheck, performance_metrics, returned,
                    runs, monitorLog >>

\* The interval fires: checkForAnomalies up to its first query.
StartCheck ==
    /\ mpc = "idle"
    /\ runs < MaxRuns
    /\ runs' = runs + 1
    /\ localAnomalies' = <<>>
    /\ mpc' = "rate"
    /\ UNCHANGED << notMonitor, experiments, now, originRequests, origin_logs, anomalies,
                    lastCheck, performance_metrics, returned, monitorLog >>

CheckStep(from, to, pushed) ==
    /\ mpc = from
    /\ localAnomalies' = localAnomalies \o pushed
    /\ mpc' = to
    /\ UNCHANGED << notMonitor, experiments, now, originRequests, origin_logs, anomalies,
                    lastCheck, performance_metrics, returned, runs, monitorLog >>

CheckRate == CheckStep("rate", "external", checkRequestRate(origin_logs, now))

CheckExternal == CheckStep("external", "success", checkExternalDomains(origin_logs, now))

CheckSuccess == CheckStep("success", "longsw", checkUnexpectedSuccesses(experiments, now))

\* The last check, then the accumulator and lastCheck; without anomalies
\* the run returns here.
CheckLongSW ==
    /\ mpc = "longsw"
    /\ localAnomalies' = localAnomalies \o checkLongRunningSWs(experiments, now)
    /\ anomalies' = anomalies \o localAnomalies'
    /\ lastCheck' = now
    /\ IF localAnomalies' # <<>>
       THEN mpc' = "alert" /\ UNCHANGED returned
       ELSE mpc' = "idle" /\ returned' = Append(returned, localAnomalies')
    /\ UNCHANGED << notMonitor, experiments, now, originRequests, origin_logs,
                    performance_metrics, runs, monitorLog >>

\* A variant of Alert: the rows of the trials behind an anomaly are deleted.
Alert_Deleting ==
    /\ mpc = "alert"
    /\ performance_metrics' = performance_metrics \o localAnomalies
    /\ returned' = Append(returned, localAnomalies)
    /\ experiments' = {}
    /\ mpc' = "idle"
    /\ UNCHANGED << notMonitor, now, originRequests, origin_logs, localAnomalies, anomalies,
                    lastCheck, runs, monitorLog >>

\* alertOnAnomalies: one insert per anomaly; the first n succeed, and the
\* run returns when all did.  A failed insert ends the run in the catch of
\* the interval callback.
Alert ==
    /\ mpc = "alert"
    /\ \E n \in 0..Len(localAnomalies) :
          /\ performance_metrics' = performance_metrics \o SubSeq(localAnomalies, 1, n)
          /\ IF n = Len(localAnomalies)
             THEN returned' = Append(returned, localAnomalies) /\ UNCHANGED monitorLog
             ELSE /\ monitorLog' = monitorLog \cup {"Anomaly detection failed"}
                  /\ UNCHANGED returned
    /\ mpc' = "idle"
    /\ UNCHANGED << notMonitor, experiments, now, originRequests, origin_logs,
                    localAnomalies, anomalies, lastCheck, runs >>

\* A query of one of the four checks rejects: checkForAnomalies throws and
\* the interval callback logs the error.
QueryFails ==
    /\ mpc \in {"rate", "external", "success", "longsw"}
    /\ mpc' = "idle"
    /\ monitorLog' = monitorLog \cup {"Anomaly detection failed"}
    /\ UNCHANGED << notMonitor, experiments, now, originRequests, origin_logs,
                    localAnomalies, anomalies, lastCheck, performance_metrics, returned,
                    runs >>

MonitorNext ==
    \/ OriginRequest
    \/ TrialPersisted
    \/ Advance
    \/ StartCheck
    \/ CheckRate
    \/ CheckExternal
    \/ CheckSuccess
    \/ CheckLongSW
    \/ Alert
    \/ QueryFails

MonitorSpec == MonitorInit /\ [][MonitorNext]_vars

\* ---- the request rate: traffic in bursts

\* The bursts of requests the origin receives.
MaxBursts == 2

\* The requests of a burst: half the ceiling, a request more, and a
\* request more than the ceiling.
BurstSizes == {30, 31, 61}

\* What a request is: answered 429 by the rate limiter, which sits in front
\* of the logging middleware; a route that only the middleware logs; or
\* /account, whose handler inserts a row of its own after the middleware's.
RequestKinds == {"blocked", "health", "account"}

\* The rows of origin_logs one request leaves (the database being up).
LogRows(kind, t) ==
    LET viaMiddleware ==
            [timestamp |-> t,
             headers |-> LoggedHeaders("middleware", [host |-> "localhost", cookie |-> TRUE])]
        viaHandler == [timestamp |-> t, headers |-> [n \in {} |-> Null]]
    IN CASE kind = "blocked" -> <<>>
         [] kind = "account" -> <<viaMiddleware, viaHandler>>
         [] OTHER -> <<viaMiddleware>>

RECURSIVE Repeat(_, _)
Repeat(rows, n) == IF n = 0 THEN <<>> ELSE rows \o Repeat(rows, n - 1)

\* The origin receives a burst of requests of one kind, from as many
\* clients as it takes.
Burst ==
    /\ Len(originRequests) <= (MaxBursts - 1) * 61
    /\ \E n \in BurstSizes, kind \in RequestKinds :
          /\ originRequests' =
                originRequests \o Repeat(<<[time |-> now, host |-> "localhost"]>>, n)
          /\ origin_logs' = origin_logs \o Repeat(LogRows(kind, now), n)
    /\ UNCHANGED << notMonitor, experiments, now, mpc, localAnomalies, anomalies, lastCheck,
                    performance_metrics, returned, runs, monitorLog >>

RateNext ==
    \/ Burst
    \/ Advance
    \/ StartCheck
    \/ CheckRate
    \/ CheckExternal
    \/ CheckSuccess
    \/ CheckLongSW
    \/ Alert

RateSpec == MonitorInit /\ [][RateNext]_vars

\* ---- the monitor's interval: runs side by side

\* The anomalies the checks find in all, so that the accumulator is bounded.
MaxAccumulated == 1

\* The awaited queries of checkForAnomalies in their order.
Checks == <<"rate", "external", "success", "longsw">>

CheckPcs == { Checks[i] : i \in DOMAIN Checks }

\* What the check a run is at pushes when it finds something.
Finding(at, s) ==
    CASE at = "rate" -> [type |-> "HIGH_REQUEST_RATE", severity |-> "HIGH", run |-> s]
      [] at = "external" -> [type |-> "EXTERNAL_DOMAIN_CONTACT", severity |-> "CRITICAL", run |-> s]
      [] at = "success" -> [type |-> "UNEXPECTED_SUCCESS", severity |-> "MEDIUM", run |-> s]
      [] OTHER -> [type |-> "LONG_RUNNING_SERVICE_WORKERS", severity |-> "MEDIUM", run |-> s]

\* The check after the one a run is at.
After(at) ==
    CASE at = "rate" -> "external"
      [] at = "external" -> "success"
      [] OTHER -> "longsw"

\* The slots whose run awaits a query or an insert.
Busy == { s \in RunSlots : overlap[s].pc \in CheckPcs \cup {"alert"} }

RECURSIVE Pending(_)
Pending(slots) ==
    IF slots = {} THEN 0
    ELSE LET s == CHOOSE x \in slots : TRUE
         IN (IF overlap[s].pc \in CheckPcs THEN Len(overlap[s].local) ELSE 0)
            + Pending(slots \ {s})

\* A variant of IntervalFires: the callback runs once, as under setTimeout.
IntervalFires_Once ==
    /\ overlap = [s \in RunSlots |-> FreeSlot]
    /\ overlap' = [overlap EXCEPT ![1] = [pc |-> "rate", local |-> <<>>, overlapped |-> FALSE]]
    /\ UNCHANGED << anomalies, lastCheck, performance_metrics, monitorLog, aroundInterval >>

\* setInterval fires: the callback calls checkForAnomalies, which runs up to
\* its first query, whether or not an earlier run is still under way.
IntervalFires ==
    /\ \E s \in RunSlots \ Busy :
          overlap' = [x \in RunSlots |->
                        IF x = s
                        THEN [pc |-> "rate", local |-> <<>>, overlapped |-> Busy # {}]
                        ELSE IF x \in Busy
                             THEN [overlap[x] EXCEPT !.overlapped = TRUE]
                             ELSE overlap[x]]
    /\ UNCHANGED << anomalies, lastCheck, performance_metrics, monitorLog, aroundInterval >>

\* The query a run awaits resolves and the check pushes what it found;
\* after the last check the run extends the accumulator and sets lastCheck.
QueryResolves(s) ==
    LET run == overlap[s]
    IN /\ run.pc \in CheckPcs
       /\ \E found \in BOOLEAN :
             LET local == run.local \o (IF found THEN <<Finding(run.pc, s)>> ELSE <<>>)
             IN /\ found => Len(anomalies) + Pending(RunSlots) < MaxAccumulated
                /\ IF run.pc = "longsw"
                   THEN /\ anomalies' = anomalies \o local
                        /\ lastCheck' = now
                        /\ overlap' = [overlap EXCEPT
                              ![s].local = local,
                              ![s].pc = IF local # <<>> THEN "alert" ELSE "over"]
                   ELSE /\ overlap' = [overlap EXCEPT ![s].local = local, ![s].pc = After(run.pc)]
                        /\ UNCHANGED << anomalies, lastCheck >>
       /\ UNCHANGED << performance_metrics, monitorLog, aroundInterval >>

\* alertOnAnomalies inserted a metric for every anomaly of the run.
AlertResolves(s) ==
    /\ overlap[s].pc = "alert"
    /\ performance_metrics' = performance_metrics \o overlap[s].local
    /\ overlap' = [overlap EXCEPT ![s].pc = "over"]
    /\ UNCHANGED << anomalies, lastCheck, monitorLog, aroundInterval >>

\* A query or an insert of a run rejects: checkForAnomalies throws, the
\* callback of the interval catches and logs.
QueryRejects(s) ==
    LET run == overlap[s]
    IN /\ run.pc \in CheckPcs \cup {"alert"}
       /\ IF run.pc = "alert"
          THEN \E n \in 0..(Len(run.local) - 1) :
                  performance_metrics' = performance_metrics \o SubSeq(run.local, 1, n)
          ELSE UNCHANGED performance_metrics
       /\ overlap' = [overlap EXCEPT ![s].pc = "failed"]
       /\ monitorLog' = monitorLog \cup {"Anomaly detection failed"}
       /\ UNCHANGED << anomalies, lastCheck, aroundInterval >>

\* The query or insert a run awaits settles.
Settles(s) == QueryResolves(s) \/ AlertResolves(s) \/ QueryRejects(s)

IntervalNext ==
    \/ IntervalFires
    \/ \E s \in RunSlots : QueryResolves(s)
    \/ \E s \in RunSlots : AlertResolves(s)
    \/ \E s \in RunSlots : QueryRejects(s)

\* The timer of setInterval fires again and again, and what a run awaits
\* settles.
IntervalSpec ==
    /\ MonitorInit
    /\ [][IntervalNext]_vars
    /\ WF_vars(IntervalFires)
    /\ \A s \in RunSlots : WF_vars(Settles(s))

\* ------------------------------------------------------------ the origin's rate limiter

\* The origin answers at most MaxOriginRequests requests.
MaxOriginRequests == 7

\* createRateLimiter(60 * 1000, 5): the second argument.
rateLimitMax == 5

StartsWith(p, prefix) ==
    Len(p) >= Len(prefix) /\ SubSeq(p, 1, Len(prefix)) = prefix

\* req.ip under app.set('trust proxy', 1): the peer is trusted, so the
\* address is the last one of X-Forwarded-For, and the peer's without it.
ReqIp(req) ==
    IF req.forwarded = <<>> THEN req.remote ELSE req.forwarded[Len(req.forwarded)]

\* The key of a request: the first entry of X-Forwarded-For, else req.ip,
\* else "local", with the limiter that has a keyGenerator, and req.ip (the
\* library's default) with the other.
keyGenerator(variant, req) ==
    IF variant = "forwarded"
    THEN LET first == IF req.forwarded = <<>> THEN "" ELSE req.forwarded[1]
         IN IF first # "" THEN first
            ELSE IF ReqIp(req) # "" THEN ReqIp(req) ELSE "local"
    ELSE ReqIp(req)

\* A variant of skip: no request is exempt.
skip_Never(variant, req) == FALSE

\* skip: req.path.startsWith("/sw"), or "/sw/" in the limiter without
\* keyGenerator.
skip(variant, req) ==
    IF variant = "forwarded"
    THEN StartsWith(req.path, <<"/", "sw">>)
    ELSE StartsWith(req.path, <<"/", "sw", "/">>)

validTypes == {"t1-path-sculpting", "t2-header-manipulation", "t4-scope-misconfig"}

\* The status of the route a request reaches behind the limiter.
Route(path) ==
    CASE path = <<"/", "health">> -> 200
      [] path = <<"/", "account">> -> 200
      [] Len(path) = 4 /\ StartsWith(path, <<"/", "sw", "/">>) ->
            IF path[4] \in validTypes THEN 200 ELSE 404
      [] OTHER -> 404

\* The state of the other components while a service is looked at alone.
TrialQuiet ==
    /\ scenario = Scenario("local", "chromium", "t1-path-sculpting", "misconfigured")
    /\ experiments = {}
    /\ TrialStart
    /\ InterpIdle
    /\ MonitorIdle

LimiterInit ==
    /\ limiter \in {"forwarded", "address"}
    /\ hits = [k \in Addresses \cup {ProxyAddress} |-> 0]
    /\ servedInWindow = [a \in Addresses \cup {ProxyAddress} |-> 0]
    /\ received = 0
    /\ lastRequest = NoRequest
    /\ lastStatus = 0
    /\ TrialQuiet
    /\ PurgeIdle
    /\ WorkerIdle
    /\ TrialsIdle
    /\ CacheIdle
    /\ IntervalIdle

\* A request passes the limiter: an exempt one goes to its route, another
\* one counts a hit for its key and goes to its route while the key has at
\* most max hits in the window, and to the handler (429) beyond.
Receive ==
    /\ received < MaxOriginRequests
    /\ \E req \in OriginRequests :
          LET k == keyGenerator(limiter, req)
              limited == ~skip(limiter, req)
              blocked == limited /\ hits[k] + 1 > rateLimitMax
          IN /\ hits' = IF limited THEN [hits EXCEPT ![k] = @ + 1] ELSE hits
             /\ lastStatus' = IF blocked THEN 429 ELSE Route(req.path)
             /\ servedInWindow' =
                   IF ~StartsWith(req.path, <<"/", "sw", "/">>) /\ ~blocked
                   THEN [servedInWindow EXCEPT ![ReqIp(req)] = @ + 1]
                   ELSE servedInWindow
             /\ lastRequest' = req
    /\ received' = received + 1
    /\ UNCHANGED << limiter, aroundLimiter >>

\* windowMs elapsed: the store forgets the hits.
WindowExpires ==
    /\ \E k \in DOMAIN hits : hits[k] > 0
    /\ hits' = [k \in DOMAIN hits |-> 0]
    /\ servedInWindow' = [a \in DOMAIN servedInWindow |-> 0]
    /\ UNCHANGED << limiter, received, lastRequest, lastStatus, aroundLimiter >>

LimiterNext ==
    \/ Receive
    \/ WindowExpires

LimiterSpec == LimiterInit /\ [][LimiterNext]_vars

\* ------------------------------------------------------------ the maintenance purge

retentionDays == 30

\* WHERE timestamp < NOW() - INTERVAL '30 days': the rows a DELETE leaves.
Kept(ages) == { a \in ages : ~(a > retentionDays) }

PurgeInit ==
    /\ purgeMode \in {"function", "script"}
    /\ intervalParam \in {"rejected", "accepted"}
    /\ purgePc = IF purgeMode = "function" THEN "select" ELSE "experiments"
    /\ tableRows \in [Tables -> SUBSET Ages]
    /\ atStart = tableRows
    /\ dbFailed = FALSE
    /\ TrialQuiet
    /\ LimiterIdle
    /\ WorkerIdle
    /\ TrialsIdle
    /\ CacheIdle
    /\ IntervalIdle

\* DatabaseQueries.cleanupOldData: SELECT cleanup_old_data(), one statement
\* and so one transaction: the three DELETEs of the function take effect
\* together, or the statement fails and none does.
CleanupFunction ==
    /\ purgeMode = "function"
    /\ purgePc = "select"
    /\ \E up \in BOOLEAN :
          IF up
          THEN tableRows' = [t \in Tables |-> Kept(tableRows[t])] /\ UNCHANGED dbFailed
          ELSE dbFailed' = TRUE /\ UNCHANGED tableRows
    /\ purgePc' = "done"
    /\ UNCHANGED << purgeMode, intervalParam, atStart, aroundPurge >>

\* A DELETE of SafetyCleanup.cleanupOldData, a statement of its own on the
\* pool: 'DELETE FROM <table> WHERE timestamp < NOW() - INTERVAL $1'.  The
\* server rejects it or takes the parameter; it fails with the connection;
\* a rejection ends the method in its catch.
ScriptDelete(table, next) ==
    /\ purgeMode = "script"
    /\ purgePc = table
    /\ IF intervalParam = "rejected"
       THEN purgePc' = "done" /\ UNCHANGED << tableRows, dbFailed >>
       ELSE \E up \in BOOLEAN :
               IF up
               THEN /\ tableRows' = [tableRows EXCEPT ![table] = Kept(@)]
                    /\ purgePc' = next
                    /\ UNCHANGED dbFailed
               ELSE /\ dbFailed' = TRUE
                    /\ purgePc' = "done"
                    /\ UNCHANGED tableRows
    /\ UNCHANGED << purgeMode, intervalParam, atStart, aroundPurge >>

DeleteExperiments == ScriptDelete("experiments", "origin_logs")

DeleteOriginLogs == ScriptDelete("origin_logs", "performance_metrics")

DeleteMetrics == ScriptDelete("performance_metrics", "done")

PurgeNext ==
    \/ CleanupFunction
    \/ DeleteExperiments
    \/ DeleteOriginLogs
    \/ DeleteMetrics

PurgeSpec == PurgeInit /\ [][PurgeNext]_vars

\* ------------------------------------------------------------ the life of a worker script

\* The moments looked at: every minute up to seven.
WorkerTimes == { 60000 * n : n \in 0..7 }

\* A variant of autoUnregisterMs: ten minutes.
autoUnregisterMs_Later(mechanism) == 600000

\* The delay of the setTimeout at the end of the script.
autoUnregisterMs(mechanism) ==
    CASE mechanism = "blob" -> 120000
      [] mechanism = "hosted" -> 300000
      [] mechanism = "file" -> 300000

WorkerInit ==
    /\ swPayload \in Payloads
    /\ swClock = 0
    /\ swStartedAt = 0
    /\ swTimer = 0
    /\ swStatus = "none"
    /\ TrialQuiet
    /\ LimiterIdle
    /\ PurgeIdle
    /\ TrialsIdle
    /\ CacheIdle
    /\ IntervalIdle

\* The browser runs the script, early enough for five minutes to be looked
\* at: its last statement sets the timer.
Install ==
    /\ swStatus = "none"
    /\ swClock + 300000 \in WorkerTimes
    /\ swStartedAt' = swClock
    /\ swTimer' = autoUnregisterMs(swPayload.mechanism)
    /\ swStatus' = "active"
    /\ UNCHANGED << swPayload, swClock, aroundWorker >>

\* A minute passes, unless a timer is due.
Tick ==
    /\ swStatus \in {"none", "active"}
    /\ swStatus = "active" => swClock < swStartedAt + swTimer
    /\ swClock + 60000 \in WorkerTimes
    /\ swClock' = swClock + 60000
    /\ UNCHANGED << swPayload, swStartedAt, swTimer, swStatus, aroundWorker >>

\* The timer is due: self.registration.unregister().
TimerFires ==
    /\ swStatus = "active"
    /\ swClock >= swStartedAt + swTimer
    /\ swStatus' = "unregistered"
    /\ UNCHANGED << swPayload, swClock, swStartedAt, swTimer, aroundWorker >>

\* The registration goes before the timer is due: the context of the trial
\* is closed, or the registrations are unregistered by hand.
RemovedEarlier ==
    /\ swStatus = "active"
    /\ swClock < swStartedAt + swTimer
    /\ swStatus' = "removed"
    /\ UNCHANGED << swPayload, swClock, swStartedAt, swTimer, aroundWorker >>

WorkerNext ==
    \/ Install
    \/ Tick
    \/ TimerFires
    \/ RemovedEarlier

\* Time passes and a due timer runs.
WorkerSpec ==
    WorkerInit /\ [][WorkerNext]_vars /\ WF_vars(Tick) /\ WF_vars(TimerFires)

\* ------------------------------------------------------------ test functions side by side

\* The awaited calls of the test function in order: the timeout the call is
\* given (0: none of its own), the statement after it, and where its
\* rejection leads: out of the function ("uncaught"), into a finally
\* ("closeVictim", "closeAttacker"), to testInfo.skip ("skip"), or, being
\* caught, on to a statement.
Wait(p) ==
    CASE p = "newContext" -> [timeout |-> 0, then |-> "newPage", else |-> "uncaught"]
      [] p = "newPage" -> [timeout |-> 0, then |-> "addCookies", else |-> "uncaught"]
      [] p = "addCookies" -> [timeout |-> 0, then |-> "health", else |-> "closeVictim"]
      [] p = "health" -> [timeout |-> 5000, then |-> "gotoBase", else |-> "gotoBase"]
      [] p = "gotoBase" -> [timeout |-> 15000, then |-> "registerBlob", else |-> "closeVictim"]
      [] p = "registerBlob" -> [timeout |-> 0, then |-> "controlBlob", else |-> "registerURL"]
      [] p = "controlBlob" -> [timeout |-> 10000, then |-> "victimGoto", else |-> "registerURL"]
      [] p = "registerURL" -> [timeout |-> 0, then |-> "controlURL", else |-> "skip"]
      [] p = "controlURL" -> [timeout |-> 10000, then |-> "victimGoto", else |-> "skip"]
      [] p = "victimGoto" -> [timeout |-> 30000, then |-> "victimText", else |-> "closeVictim"]
      [] p = "victimText" -> [timeout |-> 0, then |-> "attackerContext", else |-> "closeVictim"]
      [] p = "attackerContext" -> [timeout |-> 0, then |-> "attackerPage", else |-> "closeVictim"]
      [] p = "attackerPage" -> [timeout |-> 0, then |-> "attackerGoto", else |-> "closeVictim"]
      [] p = "attackerGoto" -> [timeout |-> 30000, then |-> "attackerText", else |-> "closeAttacker"]
      [] p = "attackerText" -> [timeout |-> 0, then |-> "persist", else |-> "closeAttacker"]
      [] p = "persist" -> [timeout |-> 0, then |-> "closeAttacker", else |-> "closeAttacker"]
      [] p = "closeAttacker" -> [timeout |-> 0, then |-> "closeVictim", else |-> "closeVictim"]
      [] p = "closeVictim" -> [timeout |-> 0, then |-> "done", else |-> "done"]

\* What the origin sends a victim: a page with the marker of the request.
VictimPage(i) ==
    LET marker == IF i = 1 THEN "marker-A" ELSE "marker-B"
    IN VictimResponse(200, Str(<<marker>>), Null, <<"code:", marker>>)

\* What an attacker of trial i can get: the cached answer to a victim
\* request of the same URL, or a fresh page of the origin.
AttackerPages(i) ==
    { [status |-> 200, headers |-> HeadersObject(<< <<"x-cache-status", Str(<<"HIT">>)>> >>),
       body |-> trials[j].victimResponse.body] :
        j \in { k \in Slots : trials[k].id = trials[i].id /\ trials[k].victimResponse.status = 200 } }
    \cup { [status |-> 200, headers |-> HeadersObject(<< <<"x-cache-status", Str(<<"MISS">>)>> >>),
            body |-> Str(<<"code:", "marker-F">>)] }

\* The trialData object of trial i.
RowOf(t) ==
    LET status == parseCDNCacheStatus(t.attackerResponse.headers, scenario.cdn)
        contains == ContainsVictimData(t.marker, t.attackerResponse.body)
        path == getAttackConfig(scenario.attack)
    IN TrialData(t.id, scenario,
                 URL("cdn", path.targetPath, scenario.strategy, t.id),
                 URL("cdn", path.modifiedPath, scenario.strategy, t.id),
                 t.victimResponse, t.marker, t.attackerResponse, status, contains,
                 AttackSuccess(status, contains),
                 validateResponseSafety(ObjectOf(t.attackerResponse.headers.entries, <<>>)))

\* The test function goes on at statement p.
GoOn(t, p) ==
    IF p = "done" THEN [t EXCEPT !.pc = "done", !.result = Report(t.exc)]
    ELSE [t EXCEPT !.pc = p]

\* The expect calls after the persistence call.
Asserted(t) ==
    LET row == RowOf(t)
    IN IF AssertionsHold(scenario.strategy, row.attack_outcome.success,
                         row.cdn_response.cache_status)
       THEN "none" ELSE "error"

\* A rejection at the statement the function is at; the one of the
\* persistence call is caught and the expect calls follow.
Rejected(t) ==
    LET to == Wait(t.pc).else
    IN CASE to = "uncaught" -> [t EXCEPT !.pc = "done", !.exc = "error", !.result = "failed"]
         [] to = "skip" -> [t EXCEPT !.pc = "closeVictim", !.exc = "skip"]
         [] t.pc = "persist" -> [t EXCEPT !.pc = to, !.exc = Asserted(t)]
         [] to \in {"closeVictim", "closeAttacker"} -> [t EXCEPT !.pc = to, !.exc = "error"]
         [] OTHER -> [t EXCEPT !.pc = to]

TrialsInit ==
    /\ TrialsIdle
    /\ TrialQuiet
    /\ LimiterIdle
    /\ PurgeIdle
    /\ WorkerIdle
    /\ CacheIdle
    /\ IntervalIdle

\* A worker starts a test function: lines 316-340, generateTrialId.
Begin(i) ==
    /\ trials[i].pc = "start"
    /\ \E id \in TrialIds :
          trials' = [trials EXCEPT ![i] = [@ EXCEPT !.pc = "newContext", !.id = id]]
    /\ UNCHANGED << experiments, aroundTrials >>

\* The call the function awaits resolves.
Resolve(i) ==
    LET t == trials[i]
        next == Wait(t.pc).then
    IN /\ t.pc \notin {"start", "done"}
       /\ CASE t.pc = "newContext" ->
                 /\ trials' = [trials EXCEPT ![i] = [t EXCEPT !.pc = next, !.last = "resolved",
                                                               !.victim = "open"]]
                 /\ UNCHANGED experiments
            [] t.pc = "victimText" ->
                 /\ \E r \in {VictimPage(i), VictimResponse(200, Null, Null, <<"hello">>)} :
                       trials' = [trials EXCEPT ![i] =
                                     [t EXCEPT !.pc = next, !.last = "resolved",
                                               !.victimResponse = r,
                                               !.marker = extractMarkerFromBody(r.page, r.body)]]
                 /\ UNCHANGED experiments
            [] t.pc = "attackerContext" ->
                 /\ trials' = [trials EXCEPT ![i] = [t EXCEPT !.pc = next, !.last = "resolved",
                                                               !.attacker = "open"]]
                 /\ UNCHANGED experiments
            [] t.pc = "attackerText" ->
                 /\ \E r \in AttackerPages(i) :
                       trials' = [trials EXCEPT ![i] =
                                     [t EXCEPT !.pc = next, !.last = "resolved",
                                               !.attackerResponse = r]]
                 /\ UNCHANGED experiments
            [] t.pc = "persist" ->
                 LET r == logTrialToDB(experiments, RowOf(t), TRUE)
                 IN /\ experiments' = r.table
                    /\ trials' = [trials EXCEPT ![i] =
                                     [t EXCEPT !.pc = next, !.last = "resolved",
                                               !.stored = r.ok, !.exc = Asserted(t)]]
            [] t.pc = "closeAttacker" ->
                 /\ trials' = [trials EXCEPT ![i] = [t EXCEPT !.pc = next, !.last = "resolved",
                                                               !.attacker = "closed"]]
                 /\ UNCHANGED experiments
            [] t.pc = "closeVictim" ->
                 /\ trials' = [trials EXCEPT ![i] =
                                  GoOn([t EXCEPT !.last = "resolved", !.victim = "closed"], next)]
                 /\ UNCHANGED experiments
            [] OTHER ->
                 /\ trials' = [trials EXCEPT ![i] = [t EXCEPT !.pc = next, !.last = "resolved"]]
                 /\ UNCHANGED experiments
       /\ UNCHANGED aroundTrials

\* The call rejects with an error (closing a context does not).
Reject(i) ==
    /\ trials[i].pc \notin {"start", "done", "closeAttacker", "closeVictim"}
    /\ trials' = [trials EXCEPT ![i] = Rejected([@ EXCEPT !.last = "rejected"])]
    /\ UNCHANGED << experiments, aroundTrials >>

\* The timeout given to the call expires: it rejects with a TimeoutError.
WaitTimesOut(i) ==
    /\ trials[i].pc \notin {"start", "done"}
    /\ Wait(trials[i].pc).timeout > 0
    /\ trials' = [trials EXCEPT ![i] = Rejected([@ EXCEPT !.last = "waitTimeout"])]
    /\ UNCHANGED << experiments, aroundTrials >>

\* A variant of TestTimeout: the runner has no timeout for a test.
TestTimeout_Never(i) ==
    /\ FALSE
    /\ UNCHANGED vars

\* timeout: 60000 of the configuration: the runner ends a test function
\* that is still under way, reports it failed and tears its worker down,
\* the browser and its contexts with it.
TestTimeout(i) ==
    /\ trials[i].pc \notin {"start", "done"}
    /\ trials' = [trials EXCEPT ![i] =
                     [@ EXCEPT !.pc = "done", !.last = "testTimeout", !.exc = "error",
                               !.result = "failed",
                               !.victim = IF @ = "open" THEN "closed" ELSE @,
                               !.attacker = IF @ = "open" THEN "closed" ELSE @]]
    /\ UNCHANGED << experiments, aroundTrials >>

TrialsNext ==
    \E i \in Slots :
        \/ Begin(i)
        \/ Resolve(i)
        \/ Reject(i)
        \/ WaitTimesOut(i)
        \/ TestTimeout(i)

\* The runner's timer of a test runs out unless the test ended before.
TrialsSpec ==
    TrialsInit /\ [][TrialsNext]_vars /\ \A i \in Slots : WF_vars(TestTimeout(i))

\* ------------------------------------------------------------ the shared cache

\* The entries other trials have in the cache while one is followed.
MaxOthers == 1

\* Math.random().toString(36).substr(2, 9)
Randoms == {"k3x9q", "0fz7a"}

\* The strategies of the trials followed.
CacheStrategies == {"proper", "misconfigured"}

\* A path of config.js as its pieces.
PathPieces(p) ==
    CASE p = "/account" -> <<"/", "account">>
      [] p = "/account/sw-wcd-cache.jpg" -> <<"/", "account", "/", "sw-wcd-cache.jpg">>
      [] p = "/api/reflect" -> <<"/", "api", "/", "reflect">>
      [] p = "/user/alice/profile" -> <<"/", "user", "/", "alice", "/", "profile">>
      [] p = "/static/user-profile-cache" -> <<"/", "static", "/", "user-profile-cache">>

\* url.pathname.match(/^\/user\/[^\/]+\/profile$/)
IsUserProfile(path) ==
    /\ Len(path) = 6
    /\ SubSeq(path, 1, 3) = <<"/", "user", "/">>
    /\ path[4] # "/"
    /\ SubSeq(path, 5, 6) = <<"/", "profile">>

\* url.pathname === '/account' || url.pathname.startsWith('/api/user')
IsSensitive(path) ==
    path = <<"/", "account">> \/ StartsWith(path, <<"/", "api", "/", "user">>)

\* The path the fetch handler of a blob payload requests for the path of
\* the page's request; url.search is kept as it is.  T2 adds request
\* headers and leaves the URL alone.
blobSWLogic(attack, path) ==
    CASE attack = "t1-path-sculpting" /\ IsSensitive(path) ->
           path \o <<"/", "sw-wcd-cache.jpg">>
      [] attack = "t4-scope-misconfig" /\ IsUserProfile(path) ->
           <<"/", "static", "/", "user-profile-cache">>
      [] OTHER -> path

\* The blob payload of T4 writes its pattern as /^\\/user\\/..., a literal
\* that ends after the two backslashes and is followed by the flags "user":
\* the script is a syntax error and cannot be installed.
BlobParses(attack) == attack # "t4-scope-misconfig"

\* The same for the script the origin hosts under /sw/<attack>.
hostedSWLogic(attack, path) ==
    CASE attack = "t1-path-sculpting" /\ IsSensitive(path) ->
           path \o <<"/", "cache-bypass" \o ".jpg">>
      [] attack = "t4-scope-misconfig" /\ IsUserProfile(path) ->
           <<"/", "static", "/", "profile-cache">>
      [] OTHER -> path

SWLogic(mechanism, attack, path) ==
    IF mechanism = "blob" THEN blobSWLogic(attack, path) ELSE hostedSWLogic(attack, path)

\* A variant of Marker: the time is left out.
Marker_Timeless(t, r) == "marker-" \o r

\* `marker-${Date.now()}-${Math.random().toString(36).substr(2, 9)}`
Marker(t, r) == "marker-" \o ToString(t) \o "-" \o r

\* req.path under app.use('/account', ..): the path behind the mount point.
MountedPath(path) == IF Len(path) = 2 THEN <<"/">> ELSE SubSeq(path, 3, Len(path))

\* The body the origin answers a request with: 429 from the rate limiter,
\* the account page under /account, the JSON of /api/reflect, 404 elsewhere.
\* The paths of a trial's two requests reach no other route.
Origin(path, strategy, trial, t, r, limited) ==
    LET marker == Marker(t, r)
        search == <<"?strategy=", strategy, "&trial=", ToString(trial)>>
    IN CASE limited -> Str(<<"error:", "Too many requests">>)
         [] StartsWith(path, <<"/", "account">>) ->
              IF strategy \in OriginStrategies
              THEN Str(<<"title:">> \o MountedPath(path)
                       \o <<"meta:", marker, "Path:">> \o MountedPath(path)
                       \o <<"Original URL:">> \o path \o search
                       \o <<"code:", marker, "Strategy:", strategy>>
                       \o <<"path:">> \o MountedPath(path)
                       \o <<"Marker:", marker, "win:", marker>>)
              ELSE Str(<<"error:", "Invalid strategy">>)
         [] path = <<"/", "api", "/", "reflect">> ->
              Str(<<"message:", "Header reflection test", "json:", marker>>)
         [] OTHER -> Str(<<"error:", "Endpoint not found">>)

\* The cache in front of the origin keeps at most one entry per path and
\* query.  A request is answered from its entry, or passed to the origin,
\* whose answer the cache may keep in place of the entry.  by names the
\* request an answer of the origin is generated for.
Through(key, by) ==
    { [body |-> e.body, from |-> "cache", by |-> e.by, store |-> edgeCache] :
        e \in { e \in edgeCache : e.key = key } }
    \cup
    { LET body == Origin(key.path, key.strategy, key.trial, originNow, r, limited)
      IN [body |-> body, from |-> "origin", by |-> by,
          store |-> IF keep
                    THEN { e \in edgeCache : e.key # key }
                         \cup {[key |-> key, body |-> body, by |-> by]}
                    ELSE edgeCache] :
        r \in Randoms, limited \in BOOLEAN, keep \in BOOLEAN }

\* What the locators of the page find in the document loaded from a body.
Document(body) ==
    [dom |-> MatchFrom(body.s, {"code:"}, 1), meta |-> MatchFrom(body.s, {"meta:"}, 1)]

NoDocument == [dom |-> Null, meta |-> Null]

CacheInit ==
    /\ edgeCache = {}
    /\ originNow = 0
    /\ visit \in { [NoVisit EXCEPT !.attack = a, !.strategy = s, !.trial = id] :
                     a \in Attacks, s \in CacheStrategies, id \in TrialIds }
    /\ TrialQuiet
    /\ LimiterIdle
    /\ PurgeIdle
    /\ WorkerIdle
    /\ TrialsIdle
    /\ IntervalIdle

\* registerSW(blobURL, '/') and waitForSWControl succeed.
BlobInstalled ==
    /\ visit.pc = "register"
    /\ BlobParses(visit.attack)
    /\ visit' = [visit EXCEPT !.pc = "victim", !.mechanism = "blob"]
    /\ UNCHANGED << edgeCache, originNow, aroundCache >>

\* The blob registration failed and the one of baseURL + swPath succeeds.
HostedInstalled ==
    /\ visit.pc = "register"
    /\ visit' = [visit EXCEPT !.pc = "victim", !.mechanism = "hosted"]
    /\ UNCHANGED << edgeCache, originNow, aroundCache >>

\* Both registrations failed: the trial is skipped.
NothingInstalled ==
    /\ visit.pc = "register"
    /\ visit' = [visit EXCEPT !.pc = "skipped"]
    /\ UNCHANGED << edgeCache, originNow, aroundCache >>

\* victimPage.goto(victimURL): the worker's handler requests its own URL,
\* the page loads the answer and the marker is extracted from it.
VictimRequest ==
    /\ visit.pc = "victim"
    /\ LET target == PathPieces(getAttackConfig(visit.attack).targetPath)
           key == [path |-> SWLogic(visit.mechanism, visit.attack, target),
                   strategy |-> visit.strategy, trial |-> visit.trial]
       IN \E o \in Through(key, [trial |-> visit.trial, who |-> "victim"]) :
            \E page \in {NoDocument, Document(o.body)} :
               /\ visit' = [visit EXCEPT
                     !.pc = "delay",
                     !.victimKey = key,
                     !.victimGenerated = IF o.from = "origin" THEN o.body ELSE Null,
                     !.marker = extractMarkerFromBody(page, o.body)]
               /\ edgeCache' = o.store
    /\ UNCHANGED << originNow, aroundCache >>

\* TestUtils.delay(TEST_CONFIG.safety.trialDelayMs)
Delay ==
    /\ visit.pc = "delay"
    /\ visit' = [visit EXCEPT !.pc = "attacker"]
    /\ originNow' = originNow + trialDelayMs
    /\ UNCHANGED << edgeCache, aroundCache >>

\* The path and query of attackerURL.
AttackerKey ==
    [path |-> PathPieces(getAttackConfig(visit.attack).modifiedPath),
     strategy |-> visit.strategy, trial |-> visit.trial]

\* attackerPage.goto(attackerURL) in a context without a worker, and
\* containsVictimData.
AttackerRequest ==
    /\ visit.pc = "attacker"
    /\ \E o \in Through(AttackerKey, [trial |-> visit.trial, who |-> "attacker"]) :
          /\ visit' = [visit EXCEPT
                !.pc = "done",
                !.attackerBody = o.body,
                !.attackerFrom = o.from,
                !.attackerEntryBy = o.by,
                !.contains = ContainsVictimData(visit.marker, o.body)]
          /\ edgeCache' = o.store
    /\ UNCHANGED << originNow, aroundCache >>

\* The paths the two requests of a trial of an attack ask the cache for.
CachePaths(attack) ==
    { SWLogic(m, attack, PathPieces(getAttackConfig(attack).targetPath)) :
        m \in {"blob", "hosted"} }
    \cup {PathPieces(getAttackConfig(attack).modifiedPath)}

\* A request of another trial of the same scenario, whose identifier is
\* its own, with an answer that changes the cache.
OtherRequest ==
    /\ Cardinality({ e \in edgeCache : e.by.trial # visit.trial }) < MaxOthers
    /\ \E id \in TrialIds \ {visit.trial}, path \in CachePaths(visit.attack) :
          \E o \in Through([path |-> path, strategy |-> visit.strategy, trial |-> id],
                           [trial |-> id, who |-> "victim"]) :
             /\ o.store # edgeCache
             /\ edgeCache' = o.store
    /\ UNCHANGED << originNow, visit, aroundCache >>

CacheNext ==
    \/ BlobInstalled
    \/ HostedInstalled
    \/ NothingInstalled
    \/ VictimRequest
    \/ Delay
    \/ AttackerRequest
    \/ OtherRequest

CacheSpec == CacheInit /\ [][CacheNext]_vars

\* ------------------------------------------------------------ properties

Range(s) == { s[i] : i \in DOMAIN s }

\* The phases of a trial in the order the test function goes through them.
PhaseOrder ==
    << "victim_session", "install", "victim_request", "wait", "attacker_session",
       "attacker_request", "classify", "persist" >>

\* The rows the trial itself stored.
StoredRows == { dbLog[i].row : i \in { j \in DOMAIN dbLog : dbLog[j].ok } }

Terminated == pc = "done"

\* C1: in every row of the experiments table, success is true exactly when
\* cache_hit and victim_data_retrieved are both true.
C1_SuccessIsConjunction ==
    \A row \in experiments :
        (row.attack_outcome.success = True)
            <=> (/\ row.attack_outcome.cache_hit = True
                 /\ row.attack_outcome.victim_data_retrieved = True)

\* A trial stored a row with success true, and the table holds it.
C1_Witness ==
    \E row \in StoredRows : row \in experiments /\ row.attack_outcome.success = True

\* C2: the phases entered so far are an initial part of the fixed order
\* (so each is entered at most once, none is skipped or re-entered), and an
\* attacker request is issued only after the victim's response was captured
\* and the propagation wait completed.
C2_PhaseOrder ==
    /\ Len(phases) <= Len(PhaseOrder)
    /\ phases = SubSeq(PhaseOrder, 1, Len(phases))
    /\ (\E i \in DOMAIN requests : requests[i].session = "attacker")
          => /\ victimResponse \in VictimResponses
             /\ waited
             /\ victimContext # "none"
             /\ swRegistrations # <<>>

\* A trial went through all eight phases.
C2_Witness == phases = PhaseOrder /\ Terminated

\* C3 (as claimed): when the trial has ended, no session it opened is
\* still open.
C3_SessionsReleased ==
    Terminated => victimContext # "open" /\ attackerContext # "open"

\* C4 (as claimed): a stored row whose victim marker is null carries an
\* instrumentation-fault annotation, something other than the plain note
\* every row gets.
C4_NullMarkerAnnotated ==
    \A row \in StoredRows :
        row.attack_outcome.victim_marker = Null => row.notes # "Test: testName"

C6_PersistFailureHarmless ==
    /\ (Terminated /\ dbLog # <<>>) =>
          result = IF /\ scenario.strategy = "proper" => attackSuccess = False
                      /\ cacheStatus.status \notin { Str(<<"PARSE_ERROR">>),
                                                     Str(<<"UNSUPPORTED_CDN">>) }
                   THEN "passed" ELSE "failed"
    /\ \A i \in DOMAIN dbLog :
          ~dbLog[i].ok => "Failed to log trial to database" \in console

\* The write failed on a duplicate identifier and the trial passed.
C6_Witness ==
    /\ Terminated
    /\ dbLog # <<>>
    /\ ~dbLog[1].ok
    /\ \E old \in experiments : old.trial_id = trialId
    /\ result = "passed"

\* C7 (as claimed): a trial that ended on an exception raised before
\* persistence has released its sessions, is reported failed and has stored
\* nothing.
C7_AbortReleasesAndFails ==
    (Terminated /\ exc = "error" /\ dbLog = <<>>) =>
        /\ victimContext # "open"
        /\ attackerContext # "open"
        /\ result = "failed"
        /\ StoredRows = {}

\* C8: registerSW is called at most twice, first with the blob and then,
\* only after the blob attempt failed, with the hosted URL; no phase is
\* entered twice and neither target request is issued twice.
C8_OneFallback ==
    /\ swRegistrations \in { <<>>, <<"blob">>, <<"blob", "url">> }
    /\ "url" \in Range(swRegistrations) => "Blob SW registration failed" \in console
    /\ \A i, j \in DOMAIN phases : phases[i] = phases[j] => i = j
    /\ \A i, j \in DOMAIN requests : requests[i] = requests[j] => i = j
    /\ Len(dbLog) <= 1

\* The fallback was used and the worker took control.
C8_Witness == swRegistrations = <<"blob", "url">> /\ controlled

InvalidTuple ==
    \/ scenario.cdn \notin CDNs
    \/ scenario.browser \notin Browsers
    \/ scenario.attack \notin Attacks
    \/ scenario.strategy \notin OriginStrategies

Incompatible ==
    \/ scenario.cdn = "local" /\ scenario.browser = "webkit"
    \/ scenario.browser = "webkit" /\ StartsWithT1(scenario.attack)

NoSideEffect ==
    /\ victimContext = "none"
    /\ attackerContext = "none"
    /\ requests = <<>>
    /\ dbLog = <<>>
    /\ trialId = 0

C11_IncompatibleSkipped ==
    Incompatible =>
        /\ NoSideEffect
        /\ cookies = {}
        /\ swRegistrations = <<>>
        /\ phases = <<>>
        /\ pc \in {"start", "done"}
        /\ Terminated =>
              /\ result = "skipped"
              /\ result \notin {"failed", "passed"}
              /\ exc = "none"
              /\ skipReason = IF scenario.cdn = "local"
                              THEN "WebKit not supported in local CDN simulator"
                              ELSE "WebKit has limited blob SW support for path sculpting"

\* A valid tuple with webkit and a t1 attack on a remote vendor was skipped.
C11_Witness ==
    /\ Terminated
    /\ ~InvalidTuple
    /\ scenario.cdn # "local"
    /\ scenario.browser = "webkit"
    /\ StartsWithT1(scenario.attack)
    /\ result = "skipped"

\* C12: the attacker's context is opened by a call of its own after the
\* victim's; it holds no cookie (so none of the victim's and no session
\* cookie), no worker is ever registered in it, and every stored row
\* records the attacker request as unauthenticated.
C12_AttackerIsolated ==
    /\ attackerState.cookies = {}
    /\ attackerState.cookies \cap cookies = {}
    /\ \A c \in attackerState.cookies : c.name # "session"
    /\ attackerState.registrations = <<>>
    /\ attackerContext # "none" =>
          /\ victimContext # "none"
          /\ "victim_session" \in Range(phases) /\ "attacker_session" \in Range(phases)
    /\ \A row \in StoredRows : row.attacker_request.authenticated = False

\* The attacker requested the target while the victim's context held the
\* session cookie and a registered worker.
C12_Witness ==
    /\ \E i \in DOMAIN requests : requests[i].session = "attacker"
    /\ cookies # {}
    /\ controlled
    /\ attackerContext = "open"

\* A trial under strategy proper whose classification gave success true.
ProperBreach == scenario.strategy = "proper" /\ attackSuccess = True

\* C13 (as claimed): a trial under strategy proper classified as success
\* ends with its row stored with success true and with the test failed.
C13_BreachPersistedAndFailed ==
    (Terminated /\ ProperBreach) =>
        /\ result = "failed"
        /\ \E row \in experiments :
              row.trial_id = trialId /\ row = trialData /\ row.attack_outcome.success = True

\* C13 (amended): a trial under strategy proper classified as success, a
\* cache hit with the victim's marker in the attacker body, makes its one
\* logTrialToDB call with success true, the row being stored when the
\* insert succeeds and the failure logged when it does not, and in either
\* case the expectation fails and the test ends failed.
C13_BreachSurfaced ==
    ProperBreach =>
        /\ cacheStatus.hit = True /\ containsVictimData = True
        /\ Truthy(victimMarker) /\ Includes(attackerResponse.body.s, victimMarker.s)
        /\ pc \in {"persist", "assert", "closeAttacker", "closeVictim", "done"}
        /\ pc # "persist" =>
              /\ Len(dbLog) = 1
              /\ dbLog[1].row = trialData
              /\ dbLog[1].row.attack_outcome.success = True
              /\ dbLog[1].row.origin_header_strategy = "proper"
              /\ dbLog[1].ok => trialData \in experiments
              /\ ~dbLog[1].ok => "Failed to log trial to database" \in console
        /\ pc \in {"closeAttacker", "closeVictim", "done"} => exc = "error"
        /\ Terminated => result = "failed"

\* A proper-strategy breach was stored and its test failed.
C13_Witness ==
    /\ Terminated
    /\ ProperBreach
    /\ dbLog # <<>> /\ dbLog[1].ok
    /\ trialData \in experiments
    /\ result = "failed"

\* C14: no two rows of the experiments table have the same trial_id, and
\* a logTrialToDB call for an identifier the table already holds throws
\* to its caller (which logs it) and leaves the table as it was.
C14_UniqueTrialId ==
    /\ [](\A r1, r2 \in experiments : r1.trial_id = r2.trial_id => r1 = r2)
    /\ [][(pc = "persist" /\ \E old \in experiments : old.trial_id = trialId) =>
            /\ experiments' = experiments
            /\ Len(dbLog') = Len(dbLog) + 1
            /\ ~dbLog'[Len(dbLog')].ok
            /\ "Failed to log trial to database" \in console']_vars

\* A trial tried to insert a different row under an identifier the table
\* already held; the earlier row is still there.
C14_Witness ==
    /\ dbLog # <<>>
    /\ ~dbLog[1].ok
    /\ ExistingRow(trialId) \in experiments
    /\ dbLog[1].row # ExistingRow(trialId)
    /\ dbLog[1].row \notin experiments

\* The values the headers argument gives the vendor's signal header, under
\* any spelling of its name.
SignalValuesOf(h, c) ==
    { h.entries[i][2] :
        i \in { j \in DOMAIN h.entries : ToLowerCase(h.entries[j][1]) = SignalHeader(c) } }

\* C15: for a known vendor and a headers object, a signal header with the
\* canonical HIT value gives hit true (cloudflare and local: the value is
\* HIT; fastly: it contains HIT; cloudfront: it contains Hit), one with the
\* canonical MISS value gives miss true, and without the signal header the
\* status is MISSING_HEADER with hit and miss both false.
C15_CanonicalSignals ==
    (callDone /\ callCdn \in CDNs /\ callHeaders.k = "object") =>
        LET vals == SignalValuesOf(callHeaders, callCdn)
            hitTok == IF callCdn = "cloudfront" THEN "Hit" ELSE "HIT"
            missTok == IF callCdn = "cloudfront" THEN "Miss" ELSE "MISS"
            Canonical(v, tok) ==
                IF callCdn \in {"cloudflare", "local"}
                THEN v = Str(<<tok>>)
                ELSE v.k = "string" /\ Includes(v.s, <<tok>>)
        IN /\ vals = {} =>
                /\ callResult.status = Str(<<"MISSING_HEADER">>)
                /\ callResult.hit = False
                /\ callResult.miss = False
           /\ \A v \in vals :
                vals = {v} =>
                    /\ Canonical(v, hitTok) => callResult.hit = True
                    /\ Canonical(v, missTok) => callResult.miss = True

\* A cloudfront hit was read from a header spelled X-Cache.
C15_Witness ==
    /\ callDone
    /\ callCdn = "cloudfront"
    /\ callHeaders = HeadersObject(<< <<"X-Cache", Str(<<"Hit", "from", "cloudfront">>)>> >>)
    /\ callResult.hit = True
    /\ callResult.miss = False

\* C16 (as claimed): for a vendor outside the rule table the status is the
\* unsupported-vendor verdict (the literal UNSUPPORTED_CDN of the code
\* counted as that verdict) whatever the headers argument is, and neither
\* hit nor miss is true.
C16_UnknownVendorUnsupported ==
    (callDone /\ callCdn \notin CDNs) =>
        /\ callResult.status \in {Str(<<"UNSUPPORTED_VENDOR">>), Str(<<"UNSUPPORTED_CDN">>)}
        /\ callResult.hit # True
        /\ callResult.miss # True

\* C17 (as claimed): a headers argument that is null, undefined or not an
\* object gives the status PARSE_ERROR, and neither HIT nor MISS.
C17_MalformedIsParseError ==
    (callDone /\ callHeaders.k # "object") =>
        /\ callResult.status = Str(<<"PARSE_ERROR">>)
        /\ callResult.hit # True
        /\ callResult.miss # True

\* The normalized verdicts, UNSUPPORTED_CDN being the code's literal for
\* the unsupported vendor.
NormalizedStatus ==
    { Str(<<t>>) : t \in {"HIT", "MISS", "BYPASS", "UNKNOWN", "MISSING_HEADER",
                          "UNSUPPORTED_VENDOR", "UNSUPPORTED_CDN", "PARSE_ERROR"} }

\* C18 (as claimed): the status returned is one of the normalized
\* verdicts, and the value of the signal header is returned as raw.
C18_StatusNormalized ==
    callDone =>
        /\ callResult.status \in NormalizedStatus
        /\ (callCdn \in CDNs /\ callHeaders.k = "object") =>
              \A v \in SignalValuesOf(callHeaders, callCdn) :
                  SignalValuesOf(callHeaders, callCdn) = {v} /\ v.k = "string"
                      => callResult.raw = v

\* C19 (as claimed): when the origin received, within the last five
\* minutes, a request for a host outside the allowlist, be it a single
\* one, the run's check of external domains yields an
\* EXTERNAL_DOMAIN_CONTACT anomaly of severity CRITICAL.
C19_ExternalContactReported ==
    [][(mpc = "external" /\ mpc' = "success") =>
          ((\E i \in DOMAIN originRequests :
                /\ originRequests[i].host \notin Allowlist
                /\ originRequests[i].time > now - 5)
             => \E j \in DOMAIN localAnomalies' :
                   /\ localAnomalies'[j].type = "EXTERNAL_DOMAIN_CONTACT"
                   /\ localAnomalies'[j].severity = "CRITICAL")]_vars

\* C20: the run's check of unexpected successes yields one
\* UNEXPECTED_SUCCESS anomaly of severity MEDIUM when the table holds a row
\* of the last hour with strategy proper and success true, and none
\* otherwise; a run that completes returns the anomalies it found.
C20_UnexpectedSuccessReported ==
    [][/\ (mpc = "success" /\ mpc' = "longsw") =>
            LET recent == { row \in experiments :
                              /\ row.timestamp > now - 60
                              /\ row.origin_header_strategy = "proper"
                              /\ row.attack_outcome.success = True }
                pushed == SubSeq(localAnomalies', Len(localAnomalies) + 1,
                                 Len(localAnomalies'))
            IN IF recent # {}
               THEN /\ Len(pushed) = 1
                    /\ pushed[1].type = "UNEXPECTED_SUCCESS"
                    /\ pushed[1].severity = "MEDIUM"
               ELSE pushed = <<>>
       /\ Len(returned') > Len(returned) =>
            /\ returned'[Len(returned')] = localAnomalies'
            /\ \A j \in DOMAIN localAnomalies' :
                  localAnomalies'[j].type = "UNEXPECTED_SUCCESS"
                      => localAnomalies'[j].severity = "MEDIUM"]_vars

\* A run returned an UNEXPECTED_SUCCESS anomaly for a stored row of
\* strategy proper with success true.
C20_Witness ==
    /\ \E i \in DOMAIN returned : \E j \in DOMAIN returned[i] :
          returned[i][j].type = "UNEXPECTED_SUCCESS" /\ returned[i][j].severity = "MEDIUM"
    /\ \E row \in experiments :
          row.origin_header_strategy = "proper" /\ row.attack_outcome.success = True

\* C21 (as claimed): when a monitor run is over, every anomaly a check of
\* the run found is in the accumulator and was inserted as a metric, also
\* when a later check or a later insert of the run failed.
C21_NoAnomalyDropped ==
    (mpc = "idle" /\ runs > 0) =>
        \A j \in DOMAIN localAnomalies :
            /\ localAnomalies[j] \in Range(anomalies)
            /\ localAnomalies[j] \in Range(performance_metrics)

\* C22 (as claimed): in one window of the limiter the origin lets at most
\* five requests of one client address through to a path outside /sw/, and
\* answers each further one of that address with 429.
C22_PerClientLimit ==
    [][received' = received + 1 =>
          /\ \A a \in DOMAIN servedInWindow' : servedInWindow'[a] <= rateLimitMax
          /\ (/\ ~StartsWith(lastRequest'.path, <<"/", "sw", "/">>)
              /\ servedInWindow[ReqIp(lastRequest')] >= rateLimitMax)
                 => lastStatus' = 429]_vars

\* C23: a request to a path under /sw/ is never answered with 429 and
\* counts no hit, whatever the hits of its key; a hosted worker script is
\* answered with 200.
C23_ScriptsNotLimited ==
    [][(received' = received + 1 /\ StartsWith(lastRequest'.path, <<"/", "sw", "/">>)) =>
          /\ lastStatus' # 429
          /\ hits' = hits
          /\ lastRequest'.path[4] \in validTypes => lastStatus' = 200]_vars

\* A worker script was answered with 200 for a client whose key has more
\* hits in the window than the limit.
C23_Witness ==
    /\ lastRequest.path = <<"/", "sw", "/", "t1-path-sculpting">>
    /\ lastStatus = 200
    /\ hits[keyGenerator(limiter, lastRequest)] > rateLimitMax

\* The rows beyond the retention horizon.
Expired(ages) == { a \in ages : a > retentionDays }

\* C24 (as claimed): the purge removes no row of thirty days or less; once
\* it is over with the connection intact no table holds a row older than
\* thirty days; and at no moment has one table lost its old rows while
\* another still holds some.
C24_PurgeExactAndAtomic ==
    /\ \A t \in Tables : { a \in atStart[t] : a <= retentionDays } \subseteq tableRows[t]
    /\ (purgePc = "done" /\ ~dbFailed) => \A t \in Tables : Expired(tableRows[t]) = {}
    /\ ~ \E t1, t2 \in Tables :
            /\ Expired(atStart[t1]) # {}
            /\ Expired(tableRows[t1]) = {}
            /\ Expired(tableRows[t2]) # {}

C26_TrialsTerminate ==
    /\ \A i \in Slots :
          (trials[i].pc # "start") ~>
              (trials[i].pc = "done" /\ trials[i].result \in {"passed", "failed", "skipped"})
    /\ [][\A i \in Slots :
            (trials'[i] # trials[i] /\ trials'[i].last \in {"waitTimeout", "testTimeout"})
                => \A j \in Slots \ {i} : trials'[j] = trials[j]]_vars

\* The runner's timeout ended one trial, reported failed, while the other
\* went on and passed.
C26_Witness ==
    \E i, j \in Slots :
        /\ trials[i].pc = "done" /\ trials[i].last = "testTimeout" /\ trials[i].result = "failed"
        /\ trials[j].pc = "done" /\ trials[j].result = "passed"

\* C27 (as claimed): every stored row is the trialData of the trial that
\* stored it, a step of one trial changes nothing of another, and a trial
\* that ended, however it ended, has no context left open.
C27_TrialsIndependent ==
    /\ [](\A row \in experiments :
             \E i \in Slots : trials[i].stored /\ row = RowOf(trials[i]))
    /\ [][\A i \in Slots : trials'[i] # trials[i]
              => \A j \in Slots \ {i} : trials'[j] = trials[j]]_vars
    /\ [](\A i \in Slots :
             trials[i].pc = "done" => trials[i].victim # "open" /\ trials[i].attacker # "open")

\* C28 (as claimed): under strategy proper the expectation on
\* attackSuccess fails only for a trial with a cache hit and the victim
\* marker in the attacker body; with a hit and a null marker, or with the
\* marker and no hit, it passes.
C28_PolicyFailsOnlyOnSuccess ==
    [][(/\ pc = "assert" /\ pc' = "closeAttacker"
        /\ scenario.strategy = "proper"
        /\ cacheStatus.status # Str(<<"PARSE_ERROR">>)
        /\ cacheStatus.status # Str(<<"UNSUPPORTED_CDN">>))
          => (exc' = "error" =>
                /\ cacheStatus.hit = True
                /\ victimMarker # Null
                /\ Includes(attackerResponse.body.s, victimMarker.s))]_vars

C30_SameCacheEntry ==
    visit.pc \in {"delay", "attacker", "done"} => visit.victimKey = AttackerKey

\* C31 (as claimed): checkRequestRate pushes a HIGH_REQUEST_RATE anomaly of
\* severity HIGH exactly when the origin received more than 60 requests in
\* the trailing minute, each request counting once.
C31_RateOfReceivedRequests ==
    mpc = "external" =>
        ((\E j \in DOMAIN localAnomalies :
             /\ localAnomalies[j].type = "HIGH_REQUEST_RATE"
             /\ localAnomalies[j].severity = "HIGH")
         <=> Cardinality({ i \in DOMAIN originRequests :
                             originRequests[i].time > now - 1 }) > maxRequestsPerMinute)

\* What a monitor run writes: where it stands, its local array, the
\* accumulator, lastCheck, the audit metrics, its return values, its log.
monitorOwn ==
    << mpc, localAnomalies, anomalies, lastCheck, performance_metrics, returned, runs,
       monitorLog >>

\* C32: a step of a monitor run leaves the trial records and the request
\* log as they are; it writes only its own state, appends to the
\* accumulator and appends security_anomaly rows to the audit metrics.
C32_MonitorOnlyReads ==
    [][monitorOwn' # monitorOwn =>
          /\ experiments' = experiments
          /\ origin_logs' = origin_logs
          /\ originRequests' = originRequests
          /\ Len(anomalies') >= Len(anomalies)
          /\ SubSeq(anomalies', 1, Len(anomalies)) = anomalies
          /\ Len(performance_metrics') >= Len(performance_metrics)
          /\ SubSeq(performance_metrics', 1, Len(performance_metrics)) = performance_metrics]_vars

\* A run that found an anomaly is over and wrote its audit metric, with
\* trial records and request-log rows in the tables.
C32_Witness ==
    /\ mpc = "idle"
    /\ runs > 0
    /\ performance_metrics # <<>>
    /\ experiments # {}
    /\ origin_logs # <<>>

\* C33: a run of the checks is started again and again; a run that threw
\* left its error in the log, and a later run is started after it.
C33_MonitorKeepsRunning ==
    /\ []<>(\E s \in RunSlots : overlap[s].pc = "rate")
    /\ [](\A s \in RunSlots :
             overlap[s].pc = "failed" => "Anomaly detection failed" \in monitorLog)
    /\ \A s \in RunSlots :
          (overlap[s].pc = "failed") ~> (\E x \in RunSlots : overlap[x].pc = "rate")

\* A run is started while an earlier run has failed.
C33_Witness ==
    \E s, x \in RunSlots :
        /\ overlap[s].pc = "failed"
        /\ overlap[x].pc = "rate"
        /\ "Anomaly detection failed" \in monitorLog

\* C34 (as claimed): when a run that overlapped with another is over,
\* every anomaly its checks found is in the accumulator.
C34_OverlapKeepsAnomalies ==
    \A s \in RunSlots :
        (overlap[s].pc \in {"over", "failed"} /\ overlap[s].overlapped) =>
            \A j \in DOMAIN overlap[s].local : overlap[s].local[j] \in Range(anomalies)

\* The four messages of validateResponseSafety.
SensitiveMessage(header) == "Sensitive header " \o header \o " found in cached response"
PrivateMessage == "Private content found in cached response"
SafetyMessages ==
    { SensitiveMessage(h) : h \in {"set-cookie", "authorization", "proxy-authorization"} }
    \cup {PrivateMessage}

\* A response carries a header: the name with a value that is not empty.
Carried(entries, name) ==
    \E i \in DOMAIN entries : entries[i][1] = name /\ entries[i][2].s # <<>>

Times(list, message) == Cardinality({ i \in DOMAIN list : list[i] = message })

C36_OnlyValidationMessages ==
    \A row \in experiments :
        \A i \in DOMAIN row.attack_outcome.safety_issues :
            /\ row.attack_outcome.safety_issues[i] \in SafetyMessages
            /\ row.attack_outcome.safety_issues[i] # "long_running_sw"

\* A trial was persisted with an issue in its list.
C36_Witness ==
    \E row \in experiments : Len(row.attack_outcome.safety_issues) > 0

\* C37: no verdict of parseCDNCacheStatus has hit and miss both true, for
\* any vendor and any value of the vendor's signal header.
C37_NeverHitAndMiss ==
    callDone => ~(callResult.hit = True /\ callResult.miss = True)

\* The header objects that differ from the given one only in the letter case
\* of their keys: the same properties in the same order, each key in one of
\* its spellings, the keys of an object distinct.
CaseVariants(headers) ==
    IF headers.k # "object" THEN {headers}
    ELSE { HeadersObject([i \in DOMAIN headers.entries |->
                             <<names[i], headers.entries[i][2]>>]) :
             names \in { f \in [DOMAIN headers.entries -> HeaderNames] :
                           /\ \A i \in DOMAIN f :
                                 ToLowerCase(f[i]) = ToLowerCase(headers.entries[i][1])
                           /\ \A i, j \in DOMAIN f : f[i] = f[j] => i = j } }

\* C38: two header maps that differ only in the letter case of their keys
\* yield the same verdict: the same status, hit and miss flags and raw value.
C38_KeyCaseIrrelevant ==
    callDone =>
        \A other \in CaseVariants(callHeaders) :
            LET v == parseCDNCacheStatus(other, callCdn)
            IN /\ v.status = callResult.status
               /\ v.hit = callResult.hit
               /\ v.miss = callResult.miss
               /\ v.raw = callResult.raw

\* A call whose signal header is spelled with capitals, read as a hit, and
\* the same header in lower case is another input.
C38_Witness ==
    /\ callDone
    /\ callCdn = "cloudflare"
    /\ \E i \in DOMAIN callHeaders.entries : callHeaders.entries[i][1] = "CF-Cache-Status"
    /\ callResult.hit = True
    /\ Cardinality(CaseVariants(callHeaders)) > 1

\* The first non-empty result of the DOM query, the metadata query and the
\* pattern search over the body, null when all three yield nothing.
FirstNonEmpty(response) ==
    IF Truthy(response.page.dom) THEN response.page.dom
    ELSE IF Truthy(response.page.meta) THEN response.page.meta
    ELSE FirstPattern(response.body.s, 1)

\* C39: the extracted marker is the first non-empty result of the #marker
\* query, the meta test-marker query and the pattern search over the raw
\* body, in this order; it is null only when all three yield nothing.
C39_FirstNonEmptyResult ==
    pc \in {"delay", "altExtract"} => victimMarker = FirstNonEmpty(victimResponse)

\* On a body that is not empty the extracted marker is the first non-empty
\* result of the three.
C39_OnNonEmptyBody ==
    (pc \in {"delay", "altExtract"} /\ Truthy(victimResponse.body))
        => victimMarker = FirstNonEmpty(victimResponse)

====
